---- MODULE Spec2Model ----
(***************************************************************************)
(* note-gen: the recording pipeline.                                       *)
(*                                                                         *)
(* app/recording/worker.py   RecordingWorker: the audio callback (C audio  *)
(*                           thread), the polling loop (daemon thread),    *)
(*                           stop() and the flush pass (caller's thread).  *)
(* app/recording/audio_utils.py   compute_chunk_boundaries.                *)
(* app/routes/recording.py   the registry _active, the start and stop      *)
(*                           requests, the websocket endpoint, the bridge  *)
(*                           from the worker thread to the event loop and  *)
(*                           the broadcast.                                *)
(*                                                                         *)
(* Three kinds of execution context are modelled.  Threads interleave at   *)
(* every step.  Coroutines of the event loop interleave only at an await:  *)
(* the code between two awaits is one action.  While the event loop's      *)
(* thread is inside the synchronous worker.stop() no coroutine runs.       *)
(*                                                                         *)
(* Samples are identified by their offset in the captured stream, so a     *)
(* block of the buffer is modelled by its length and a slice of the        *)
(* snapshot by its range <<start, end>>.  Times are kept in hundredths of  *)
(* a second, the precision round(x, 2) keeps.                              *)
(***************************************************************************)
EXTENDS Integers, Sequences, FiniteSets, TLC

(***************************************************************************)
(* Bounds of the exploration.                                              *)
(***************************************************************************)
\* the numbers of start requests, stop requests, websocket clients and
\* sessions the state has room for; the worker a start request creates
\* carries the request's number
MaxStarts == 2
MaxStops == 2
MaxClients == 2
MaxSessions == 2
\* per specification: the audio blocks the device delivers to one stream,
\* the requests made, the clients that connect and the listeners registered
\* on a worker besides the route's bridge
PipelineBlocks == 8
BroadcastBlocks == 3
BroadcastClients == 2
RestartBlocks == 2
RestartStarts == 2
RestartStops == 2
OpenStarts == 2
OpenBlocks == 2
FailureBlocks == 5
FailureStops == 2
ListenerBlocks == 5
ListenerCount == 2
\* the calls of compute_chunk_boundaries explored on their own: the largest
\* total, the largest chunk length and the number of calls made with the
\* same arguments
MaxTotal == 7
MaxChunk == 3
MaxCalls == 2
\* the blocks fed in the end-to-end scenario: 70000 samples
ScenarioBlocks == 35
\* the recording with live notes: its blocks, its subscribers and the
\* interval set for the notes
NotesBlocks == 5
NotesClients == 1
NotesInterval == 2
\* the fairly scheduled recording: its blocks
FairBlocks == 4
\* the recording whose notes are due after every chunk: its blocks
RaceBlocks == 4
\* the recordings of several sessions: the blocks of each stream
SessionsBlocks == 1

StartReqs == 1 .. MaxStarts
StopReqs == 1 .. MaxStops
Clients == 1 .. MaxClients
SessionIds == 1 .. MaxSessions
Workers == StartReqs
\* thread 0 is the event loop's thread while it runs worker.stop();
\* thread w > 0 is the daemon thread of worker w
MainThread == 0
Threads == {MainThread} \cup Workers

(***************************************************************************)
(* Configuration (app/config.py), in the model's units: one unit is one    *)
(* audio block.                                                            *)
(***************************************************************************)
\* frames per audio block
blocksize == 1
\* samples per second
sample_rate == 2
\* samples per second where the requests, not the samples, are explored
coarse_sample_rate == 1
\* samples per second in the end-to-end scenario, where one unit is a block
\* of 2000 samples: 16000 samples per second, 32000 samples per chunk
scenario_sample_rate == 8
\* seconds per chunk
chunk_duration_seconds == 2
\* live notes every that many chunks
live_notes_interval_chunks == 5

VARIABLES
    env,            \* what the environment does in this run (see Init)
    settings,       \* app.config.settings
    \* ---- the database
    status,         \* sessions.status, "absent" before create_session
    chunks,         \* transcript_chunks, in insertion order
    \* ---- RecordingWorker objects, by worker
    session_id,     \* 0: not constructed yet
    buffer,         \* _buffer: the lengths of the blocks
    total_samples,  \* _total_samples
    lock,           \* _lock: "free" or the holder
    last_chunk_end, \* _last_chunk_end
    chunk_index,    \* _chunk_index
    running,        \* _running
    stream,         \* _stream: "none" or "open"
    thread,         \* _thread: "none" or "set"
    callbacks,      \* _callbacks: the listeners' kinds
    \* ---- execution contexts
    apc,            \* the audio thread in _audio_callback, by worker
    tpc,            \* where each thread is
    loc,            \* each thread's local variables
    \* ---- files and listeners
    wav_writes,     \* the calls of samples_to_wav, in order
    heard,          \* by worker and listener, the chunk indices it was called with
    \* ---- the event loop
    active,         \* _active, by session
    spc,            \* start requests
    sreq,           \* their session, the status their UPDATE replaced, their answer
    qpc,            \* stop requests
    qreq,           \* their session, the worker they stop, their answer, the
                    \* coroutines the loop starts before it resumes them
    sock,           \* websocket connections
    csess,          \* their session
    recv,           \* what each client received
    queue,          \* coroutines submitted by run_coroutine_threadsafe
    tasks,          \* _handle_chunk_transcribed tasks in progress
    notes_calls,    \* the calls of generate_live_notes, in order
    live_draft      \* notes/live_draft.md by session: the calls that wrote it

dbVars == <<status, chunks>>
bufVars == <<buffer, total_samples, lock>>
chunkVars == <<last_chunk_end, chunk_index>>
lifeVars == <<running, stream, thread>>
objVars == <<session_id, callbacks>>
threadVars == <<apc, tpc, loc>>
logVars == <<wav_writes, heard>>
reqVars == <<spc, sreq, qpc, qreq>>
wsVars == <<sock, csess, recv>>
bridgeVars == <<queue, tasks, notes_calls, live_draft>>
notesVars == <<notes_calls, live_draft>>
vars == <<env, settings, dbVars, bufVars, chunkVars, lifeVars, objVars,
          threadVars, logVars, active, reqVars, wsVars, bridgeVars>>

(***************************************************************************)
(* Helpers.                                                                *)
(***************************************************************************)
RECURSIVE SumSeq(_)
SumSeq(s) == IF s = <<>> THEN 0 ELSE Head(s) + SumSeq(Tail(s))

\* len(np.concatenate(self._buffer, axis=0).flatten())
ConcatLen(w) == SumSeq(buffer[w])

\* round(n / d, 2) in hundredths: Python rounds a tie to the even digit
Round2(n, d) ==
    LET q == (100 * n) \div d
        r == (100 * n) % d
    IN  IF 2 * r < d THEN q
        ELSE IF 2 * r > d THEN q + 1
        ELSE IF q % 2 = 0 THEN q ELSE q + 1

\* compute_chunk_boundaries(total_samples, last_chunk_end, samples_per_chunk)
RECURSIVE compute_chunk_boundaries(_, _, _)
compute_chunk_boundaries(total, pos, spc_) ==
    IF pos + spc_ <= total
    THEN <<<<pos, pos + spc_>>>> \o compute_chunk_boundaries(total, pos + spc_, spc_)
    ELSE <<>>

\* RecordingWorker.__init__: self.samples_per_chunk
samples_per_chunk == settings.sample_rate * settings.chunk_duration_seconds

NoLocals == [w |-> 0, req |-> 0, total |-> 0, boundaries |-> <<>>,
             full_audio |-> 0, samples |-> <<0, 0>>,
             start_time |-> 0, end_time |-> 0]

NoEntry == [present |-> FALSE, worker |-> 0, websockets |-> <<>>, data_dir |-> ""]

routeVars == <<active, reqVars, wsVars, bridgeVars>>
cfgVars == <<env, settings>>

LoopThreadDone(w) == tpc[w] \in {"unstarted", "exited", "dead"}

(***************************************************************************)
(* The audio callback (sounddevice's thread).                              *)
(***************************************************************************)
\* with self._lock:
audio_callback_enter(w) ==
    /\ stream[w] = "open"
    /\ apc[w] = "idle"
    /\ Len(buffer[w]) < env.blocks
    /\ lock[w] = "free"
    /\ lock' = [lock EXCEPT ![w] = "audio"]
    /\ apc' = [apc EXCEPT ![w] = "locked"]
    /\ UNCHANGED <<cfgVars, dbVars, buffer, total_samples, chunkVars, lifeVars,
                   objVars, tpc, loc, logVars, routeVars>>

\* the append with the lock released before the counter is updated
audio_callback_append_releases(w) ==
    /\ apc[w] = "locked"
    /\ buffer' = [buffer EXCEPT ![w] = Append(@, blocksize)]
    /\ lock' = [lock EXCEPT ![w] = "free"]
    /\ apc' = [apc EXCEPT ![w] = "appended"]
    /\ UNCHANGED <<cfgVars, dbVars, total_samples, chunkVars, lifeVars,
                   objVars, tpc, loc, logVars, routeVars>>

\* self._buffer.append(indata.copy())
audio_callback_append(w) ==
    /\ apc[w] = "locked"
    /\ buffer' = [buffer EXCEPT ![w] = Append(@, blocksize)]
    /\ apc' = [apc EXCEPT ![w] = "appended"]
    /\ UNCHANGED <<cfgVars, dbVars, total_samples, lock, chunkVars, lifeVars,
                   objVars, tpc, loc, logVars, routeVars>>

\* the counter advanced by more than the block appended
audio_callback_count_ahead(w) ==
    /\ apc[w] = "appended"
    /\ total_samples' = [total_samples EXCEPT ![w] = @ + 2 * blocksize]
    /\ lock' = [lock EXCEPT ![w] = "free"]
    /\ apc' = [apc EXCEPT ![w] = "idle"]
    /\ UNCHANGED <<cfgVars, dbVars, buffer, chunkVars, lifeVars,
                   objVars, tpc, loc, logVars, routeVars>>

\* self._total_samples += frames, and the lock is released
audio_callback_count(w) ==
    /\ apc[w] = "appended"
    /\ total_samples' = [total_samples EXCEPT ![w] = @ + blocksize]
    /\ lock' = [lock EXCEPT ![w] = "free"]
    /\ apc' = [apc EXCEPT ![w] = "idle"]
    /\ UNCHANGED <<cfgVars, dbVars, buffer, chunkVars, lifeVars,
                   objVars, tpc, loc, logVars, routeVars>>

(***************************************************************************)
(* _process_single_chunk, run by thread t on worker loc[t].w.              *)
(***************************************************************************)
\* the call: the WAV file chunk_{_chunk_index:04d}.wav is written
EnterProcess(t, w, samples, full_audio) ==
    /\ wav_writes' = Append(wav_writes,
           [worker |-> w, chunk_index |-> chunk_index[w], samples |-> samples])
    /\ loc' = [loc EXCEPT ![t].samples = samples, ![t].full_audio = full_audio]
    /\ tpc' = [tpc EXCEPT ![t] = "transcribe"]

\* an exception the polling loop would catch and go on after
RaiseCaughtByLoop(t) ==
    IF t = MainThread
    THEN /\ tpc' = [tpc EXCEPT ![t] = "idle"]
         /\ loc' = [loc EXCEPT ![t] = NoLocals]
         /\ qpc' = [qpc EXCEPT ![loc[t].req] = "done"]
         /\ qreq' = [qreq EXCEPT ![loc[t].req].answer = 500]
    ELSE /\ tpc' = [tpc EXCEPT ![t] = "wait"]
         /\ loc' = [loc EXCEPT ![t] = [NoLocals EXCEPT !.w = t]]
         /\ UNCHANGED <<qpc, qreq>>

\* an exception leaves the thread's frames: the daemon thread ends; in the
\* event loop's thread it leaves stop() and stop_recording, whose request
\* is answered 500 with the registry untouched
Raise(t) ==
    IF t = MainThread
    THEN /\ tpc' = [tpc EXCEPT ![t] = "idle"]
         /\ loc' = [loc EXCEPT ![t] = NoLocals]
         /\ qpc' = [qpc EXCEPT ![loc[t].req] = "done"]
         /\ qreq' = [qreq EXCEPT ![loc[t].req].answer = 500]
    ELSE /\ tpc' = [tpc EXCEPT ![t] = "dead"]
         /\ loc' = [loc EXCEPT ![t] = NoLocals]
         /\ UNCHANGED <<qpc, qreq>>

\* whisper.transcribe(wav_path) returns; the time offsets are computed
process_transcribe(t) ==
    /\ tpc[t] = "transcribe"
    /\ LET w == loc[t].w
           len == loc[t].samples[2] - loc[t].samples[1]
       IN  loc' = [loc EXCEPT
                ![t].start_time = Round2(last_chunk_end[w], settings.sample_rate),
                ![t].end_time = Round2(last_chunk_end[w] + len, settings.sample_rate)]
    /\ tpc' = [tpc EXCEPT ![t] = "insert"]
    /\ UNCHANGED <<cfgVars, dbVars, bufVars, chunkVars, lifeVars, objVars, apc,
                   logVars, routeVars>>

\* a failed transcription counted as a chunk
transcribe_raises_counted(t) ==
    /\ tpc[t] = "transcribe"
    /\ "transcribe" \in env.faults
    /\ Raise(t)
    /\ chunk_index' = [chunk_index EXCEPT ![loc[t].w] = @ + 1]
    /\ UNCHANGED <<cfgVars, dbVars, bufVars, last_chunk_end, lifeVars, objVars, apc,
                   logVars, active, spc, sreq, wsVars, bridgeVars>>

\* whisper.transcribe(wav_path) raises
transcribe_raises(t) ==
    /\ tpc[t] = "transcribe"
    /\ "transcribe" \in env.faults
    /\ Raise(t)
    /\ UNCHANGED <<cfgVars, dbVars, bufVars, chunkVars, lifeVars, objVars, apc,
                   logVars, active, spc, sreq, wsVars, bridgeVars>>

\* the listeners called before the row is written
process_insert_deferred(t) ==
    /\ tpc[t] = "insert"
    /\ tpc' = [tpc EXCEPT ![t] = "fire"]
    /\ UNCHANGED <<cfgVars, dbVars, bufVars, chunkVars, lifeVars, objVars, apc, loc,
                   logVars, routeVars>>

\* INSERT INTO transcript_chunks ...; conn.commit()
process_insert(t) ==
    /\ tpc[t] = "insert"
    /\ LET w == loc[t].w
       IN  chunks' = Append(chunks,
               [session_id |-> session_id[w], chunk_index |-> chunk_index[w],
                start_time |-> loc[t].start_time, end_time |-> loc[t].end_time])
    /\ tpc' = [tpc EXCEPT ![t] = "fire"]
    /\ UNCHANGED <<cfgVars, status, bufVars, chunkVars, lifeVars, objVars, apc, loc,
                   logVars, routeVars>>

\* the INSERT or the commit raises
insert_raises(t) ==
    /\ tpc[t] = "insert"
    /\ "insert" \in env.faults
    /\ Raise(t)
    /\ UNCHANGED <<cfgVars, dbVars, bufVars, chunkVars, lifeVars, objVars, apc,
                   logVars, active, spc, sreq, wsVars, bridgeVars>>

\* a listener's exception left uncaught
ListenerOutcomeUncaught(kind) == IF kind = "raising" THEN "uncaught" ELSE "returned"

\* try: fn(chunk_meta) / except Exception: pass
ListenerOutcome(kind) == IF kind = "raising" THEN "caught" ELSE "returned"

\* how many listeners of cbs the loop for fn in self._callbacks calls
RECURSIVE Called(_)
Called(cbs) ==
    IF cbs = <<>> THEN 0
    ELSE IF ListenerOutcome(Head(cbs)) = "uncaught" THEN 1
    ELSE 1 + Called(Tail(cbs))

\* whether the loop over the listeners ends by an exception
FireRaises(cbs) == \E i \in 1 .. Len(cbs) : ListenerOutcome(cbs[i]) = "uncaught"

\* _on_chunk: asyncio.run_coroutine_threadsafe(_handle_chunk_transcribed(...), loop)
Submitted(w, cbs, n, meta) ==
    IF \E i \in 1 .. n : cbs[i] = "bridge" THEN <<meta>> ELSE <<>>

\* chunk_meta is built and every listener is called with it
process_fire(t) ==
    /\ tpc[t] = "fire"
    /\ LET w == loc[t].w
           cbs == callbacks[w]
           n == Called(cbs)
           meta == [session_id |-> session_id[w], chunk_index |-> chunk_index[w],
                    start_time |-> loc[t].start_time, end_time |-> loc[t].end_time]
       IN  /\ heard' = [heard EXCEPT ![w] =
                   [i \in 1 .. Len(cbs) |->
                       IF i <= n THEN Append(@[i], meta.chunk_index) ELSE @[i]]]
           /\ queue' = queue \o Submitted(w, cbs, n, meta)
           /\ IF FireRaises(cbs)
              THEN Raise(t)
              ELSE /\ tpc' = [tpc EXCEPT ![t] = "advance"]
                   /\ UNCHANGED <<loc, qpc, qreq>>
    /\ UNCHANGED <<cfgVars, dbVars, bufVars, chunkVars, lifeVars, objVars, apc,
                   wav_writes, active, spc, sreq, wsVars, tasks, notesVars>>

(***************************************************************************)
(* The polling loop (the worker's daemon thread).                          *)
(***************************************************************************)
\* a loop that does not test the flag: while True:
worker_loop_test_forever(w) ==
    /\ tpc[w] = "test"
    /\ tpc' = [tpc EXCEPT ![w] = "lock_total"]
    /\ UNCHANGED <<cfgVars, dbVars, bufVars, chunkVars, lifeVars, objVars, apc, loc,
                   logVars, routeVars>>

\* while self._running:
worker_loop_test(w) ==
    /\ tpc[w] = "test"
    /\ tpc' = [tpc EXCEPT ![w] = IF running[w] THEN "lock_total" ELSE "exited"]
    /\ loc' = [loc EXCEPT ![w] = IF running[w] THEN @ ELSE NoLocals]
    /\ UNCHANGED <<cfgVars, dbVars, bufVars, chunkVars, lifeVars, objVars, apc,
                   logVars, routeVars>>

\* _maybe_process_chunks: with self._lock:
poll_lock_total(w) ==
    /\ tpc[w] = "lock_total"
    /\ lock[w] = "free"
    /\ lock' = [lock EXCEPT ![w] = "loop"]
    /\ tpc' = [tpc EXCEPT ![w] = "read_total"]
    /\ UNCHANGED <<cfgVars, dbVars, buffer, total_samples, chunkVars, lifeVars,
                   objVars, apc, loc, logVars, routeVars>>

\* a poll that goes on to its snapshot whatever the boundaries are
poll_read_total_always(w) ==
    /\ tpc[w] = "read_total"
    /\ lock' = [lock EXCEPT ![w] = "free"]
    /\ tpc' = [tpc EXCEPT ![w] = "lock_snapshot"]
    /\ loc' = [loc EXCEPT ![w].total = total_samples[w],
                          ![w].boundaries =
                              compute_chunk_boundaries(total_samples[w], last_chunk_end[w],
                                                       samples_per_chunk)]
    /\ UNCHANGED <<cfgVars, dbVars, buffer, total_samples, chunkVars, lifeVars,
                   objVars, apc, logVars, routeVars>>

\* total = self._total_samples; the lock is released; the boundaries are
\* computed; if not boundaries: return
poll_read_total(w) ==
    /\ tpc[w] = "read_total"
    /\ lock' = [lock EXCEPT ![w] = "free"]
    /\ LET total == total_samples[w]
           boundaries == compute_chunk_boundaries(total, last_chunk_end[w],
                                                  samples_per_chunk)
       IN  IF boundaries = <<>>
           THEN /\ tpc' = [tpc EXCEPT ![w] = "wait"]
                /\ UNCHANGED loc
           ELSE /\ tpc' = [tpc EXCEPT ![w] = "lock_snapshot"]
                /\ loc' = [loc EXCEPT ![w].total = total,
                                      ![w].boundaries = boundaries]
    /\ UNCHANGED <<cfgVars, dbVars, buffer, total_samples, chunkVars, lifeVars,
                   objVars, apc, logVars, routeVars>>

\* with self._lock: (the second time)
poll_lock_snapshot(w) ==
    /\ tpc[w] = "lock_snapshot"
    /\ lock[w] = "free"
    /\ lock' = [lock EXCEPT ![w] = "loop"]
    /\ tpc' = [tpc EXCEPT ![w] = "snapshot"]
    /\ UNCHANGED <<cfgVars, dbVars, buffer, total_samples, chunkVars, lifeVars,
                   objVars, apc, loc, logVars, routeVars>>

\* the snapshot taken without leaving the with block
poll_snapshot_keeps_lock(w) ==
    /\ tpc[w] = "snapshot"
    /\ IF buffer[w] = <<>>
       THEN /\ tpc' = [tpc EXCEPT ![w] = "wait"]
            /\ loc' = [loc EXCEPT ![w] = [NoLocals EXCEPT !.w = w]]
       ELSE /\ tpc' = [tpc EXCEPT ![w] = "for"]
            /\ loc' = [loc EXCEPT ![w].full_audio = ConcatLen(w)]
    /\ UNCHANGED <<cfgVars, dbVars, bufVars, chunkVars, lifeVars,
                   objVars, apc, logVars, routeVars>>

\* if not self._buffer: return; full_audio = np.concatenate(...)
poll_snapshot(w) ==
    /\ tpc[w] = "snapshot"
    /\ lock' = [lock EXCEPT ![w] = "free"]
    /\ IF buffer[w] = <<>>
       THEN /\ tpc' = [tpc EXCEPT ![w] = "wait"]
            /\ loc' = [loc EXCEPT ![w] = [NoLocals EXCEPT !.w = w]]
       ELSE /\ tpc' = [tpc EXCEPT ![w] = "for"]
            /\ loc' = [loc EXCEPT ![w].full_audio = ConcatLen(w)]
    /\ UNCHANGED <<cfgVars, dbVars, buffer, total_samples, chunkVars, lifeVars,
                   objVars, apc, logVars, routeVars>>

\* if end > len(full_audio): break
BoundaryReady(b, full_audio) == ~(b[2] > full_audio)

\* for start, end in boundaries: ... self._process_single_chunk(full_audio[start:end])
poll_for(w) ==
    /\ tpc[w] = "for"
    /\ IF loc[w].boundaries # <<>>
          /\ BoundaryReady(Head(loc[w].boundaries), loc[w].full_audio)
       THEN /\ EnterProcess(w, w, Head(loc[w].boundaries), loc[w].full_audio)
            /\ UNCHANGED heard
       ELSE /\ tpc' = [tpc EXCEPT ![w] = "wait"]
            /\ loc' = [loc EXCEPT ![w] = [NoLocals EXCEPT !.w = w]]
            /\ UNCHANGED logVars
    /\ UNCHANGED <<cfgVars, dbVars, bufVars, chunkVars, lifeVars, objVars, apc,
                   routeVars>>

\* self._last_chunk_end = end; self._chunk_index += 1
poll_advance(w) ==
    /\ tpc[w] = "advance"
    /\ last_chunk_end' = [last_chunk_end EXCEPT ![w] = loc[w].samples[2]]
    /\ chunk_index' = [chunk_index EXCEPT ![w] = @ + 1]
    /\ tpc' = [tpc EXCEPT ![w] = "for"]
    /\ loc' = [loc EXCEPT ![w].boundaries = Tail(@),
                          ![w].samples = <<0, 0>>,
                          ![w].start_time = 0, ![w].end_time = 0]
    /\ UNCHANGED <<cfgVars, dbVars, bufVars, lifeVars, objVars, apc, logVars,
                   routeVars>>

\* the loop ending after its first poll
worker_loop_wait_once(w) ==
    /\ tpc[w] = "wait"
    /\ tpc' = [tpc EXCEPT ![w] = "exited"]
    /\ loc' = [loc EXCEPT ![w] = NoLocals]
    /\ UNCHANGED <<cfgVars, dbVars, bufVars, chunkVars, lifeVars, objVars, apc,
                   logVars, routeVars>>

\* threading.Event().wait(1.0)
worker_loop_wait(w) ==
    /\ tpc[w] = "wait"
    /\ tpc' = [tpc EXCEPT ![w] = "test"]
    /\ UNCHANGED <<cfgVars, dbVars, bufVars, chunkVars, lifeVars, objVars, apc, loc,
                   logVars, routeVars>>

(***************************************************************************)
(* The event loop.                                                         *)
(***************************************************************************)
\* no coroutine runs while the loop's thread is inside worker.stop()
LoopFree == tpc[MainThread] = "idle"

StatusMsg(st) == [type |-> "recording_status", status |-> st, session_id |-> 0,
                  chunk_index |-> -1, start_time |-> 0, end_time |-> 0, notes |-> 0]

\* {"type": "chunk_transcribed", **chunk_meta}
ChunkMsg(meta) == [type |-> "chunk_transcribed", status |-> "",
                   session_id |-> meta.session_id, chunk_index |-> meta.chunk_index,
                   start_time |-> meta.start_time, end_time |-> meta.end_time,
                   notes |-> 0]

\* {"type": "live_notes_updated", "notes": live_notes}: the notes are named
\* by the call that returned them
NotesMsg(n) == [type |-> "live_notes_updated", status |-> "", session_id |-> 0,
                chunk_index |-> -1, start_time |-> 0, end_time |-> 0, notes |-> n]

\* try: await ws.send_json(message) / except Exception: pass
\* the send raises when the peer has gone
Send(rc, c, msg) == IF sock[c] = "open" THEN [rc EXCEPT ![c] = Append(@, msg)] ELSE rc

\* _send_to_all: if session_id not in _active: return;
\* list(_active[session_id]["websockets"])
Recipients(s) == IF active[s].present THEN active[s].websockets ELSE <<>>

\* the first send of a broadcast happens before its first await
SendFirst(rc, to, msg) == IF to = <<>> THEN rc ELSE Send(rc, Head(to), msg)

\* a send that raises out of the loop: nobody is left to send to
RestUnlessRaised(to) == IF to = <<>> \/ sock[Head(to)] # "open" THEN <<>> ELSE Tail(to)

\* the subscribers the loop has still to send to after the first
Rest(to) == IF to = <<>> THEN <<>> ELSE Tail(to)

\* sessions.py create_session: INSERT INTO sessions ... 'idle'
create_session(s) ==
    /\ LoopFree
    /\ status[s] = "absent"
    /\ status' = [status EXCEPT ![s] = "idle"]
    /\ UNCHANGED <<cfgVars, chunks, bufVars, chunkVars, lifeVars, objVars,
                   threadVars, logVars, routeVars>>

\* RecordingWorker.on_chunk_transcribed(fn)
on_chunk_transcribed(w, kind) ==
    /\ session_id[w] # 0
    /\ Len(callbacks[w]) < 1 + env.listeners
    /\ callbacks' = [callbacks EXCEPT ![w] = Append(@, kind)]
    /\ heard' = [heard EXCEPT ![w] = Append(@, <<>>)]
    /\ UNCHANGED <<cfgVars, dbVars, bufVars, chunkVars, lifeVars, session_id,
                   threadVars, wav_writes, routeVars>>

(***************************************************************************)
(* start_recording, request r; its worker is worker r.                     *)
(***************************************************************************)
\* the registry's check, up to the first await
start_recording_begin(r, s) ==
    /\ LoopFree
    /\ spc[r] = "idle"
    /\ r <= env.starts
    /\ \A r2 \in StartReqs : r2 < r => spc[r2] # "idle"
    /\ IF active[s].present /\ active[s].worker # 0
       THEN /\ spc' = [spc EXCEPT ![r] = "done"]
            /\ sreq' = [sreq EXCEPT ![r].session = s, ![r].answer = 409]
       ELSE /\ spc' = [spc EXCEPT ![r] = "db"]
            /\ sreq' = [sreq EXCEPT ![r].session = s]
    /\ UNCHANGED <<cfgVars, dbVars, bufVars, chunkVars, lifeVars, objVars,
                   threadVars, logVars, active, qpc, qreq, wsVars, bridgeVars>>

\* SELECT the session; UPDATE sessions SET status = 'recording'; commit
start_recording_db(r) ==
    /\ LoopFree
    /\ spc[r] = "db"
    /\ LET s == sreq[r].session
       IN  IF status[s] = "absent"
           THEN /\ spc' = [spc EXCEPT ![r] = "done"]
                /\ sreq' = [sreq EXCEPT ![r].answer = 404]
                /\ UNCHANGED status
           ELSE /\ spc' = [spc EXCEPT ![r] = "register"]
                /\ status' = [status EXCEPT ![s] = "recording"]
                /\ sreq' = [sreq EXCEPT ![r].before = status[s]]
    /\ UNCHANGED <<cfgVars, chunks, bufVars, chunkVars, lifeVars, objVars,
                   threadVars, logVars, active, qpc, qreq, wsVars, bridgeVars>>

\* an entry written with an empty subscriber list
RegisteredAfresh(s, w) ==
    [present |-> TRUE, worker |-> w, websockets |-> <<>>, data_dir |-> "data"]

\* existing_ws = _active.get(session_id, {}).get("websockets", [])
\* _active[session_id] = {"worker": worker, "websockets": existing_ws, ...,
\*                        "data_dir": data_dir}
Registered(s, w) ==
    [present |-> TRUE, worker |-> w, websockets |-> Recipients(s), data_dir |-> "data"]

\* the worker is built, the bridge registered, the entry written,
\* worker.start() opens the stream and starts the thread, and the
\* broadcast of "recording" begins
start_recording_register(r) ==
    /\ LoopFree
    /\ spc[r] = "register"
    /\ LET s == sreq[r].session
           to == Recipients(s)
       IN  /\ session_id' = [session_id EXCEPT ![r] = s]
           /\ callbacks' = [callbacks EXCEPT ![r] = <<"bridge">>]
           /\ heard' = [heard EXCEPT ![r] = << <<>> >>]
           /\ active' = [active EXCEPT ![s] = Registered(s, r)]
           /\ running' = [running EXCEPT ![r] = TRUE]
           /\ stream' = [stream EXCEPT ![r] = "open"]
           /\ thread' = [thread EXCEPT ![r] = "set"]
           /\ tpc' = [tpc EXCEPT ![r] = "test"]
           /\ loc' = [loc EXCEPT ![r].w = r]
           /\ recv' = SendFirst(recv, to, StatusMsg("recording"))
           /\ sreq' = [sreq EXCEPT ![r].rem = Rest(to),
                                   ![r].answer = IF to = <<>> THEN 200 ELSE @]
           /\ spc' = [spc EXCEPT ![r] = IF to = <<>> THEN "done" ELSE "broadcast"]
    /\ UNCHANGED <<cfgVars, dbVars, bufVars, chunkVars, apc, wav_writes,
                   qpc, qreq, sock, csess, bridgeVars>>

\* sd.InputStream(...) raises: _running is already set; the handler
\* writes None over the entry's worker
start_recording_open_fails(r) ==
    /\ LoopFree
    /\ spc[r] = "register"
    /\ "open" \in env.faults
    /\ LET s == sreq[r].session
       IN  /\ session_id' = [session_id EXCEPT ![r] = s]
           /\ callbacks' = [callbacks EXCEPT ![r] = <<"bridge">>]
           /\ heard' = [heard EXCEPT ![r] = << <<>> >>]
           /\ active' = [active EXCEPT ![s] = Registered(s, 0)]
           /\ running' = [running EXCEPT ![r] = TRUE]
    /\ spc' = [spc EXCEPT ![r] = "revert"]
    /\ UNCHANGED <<cfgVars, dbVars, bufVars, chunkVars, stream, thread, threadVars,
                   wav_writes, sreq, qpc, qreq, wsVars, bridgeVars>>

\* UPDATE sessions SET status = 'idle'; raise HTTPException(500)
start_recording_revert(r) ==
    /\ LoopFree
    /\ spc[r] = "revert"
    /\ status' = [status EXCEPT ![sreq[r].session] = "idle"]
    /\ spc' = [spc EXCEPT ![r] = "done"]
    /\ sreq' = [sreq EXCEPT ![r].answer = 500]
    /\ UNCHANGED <<cfgVars, chunks, bufVars, chunkVars, lifeVars, objVars,
                   threadVars, logVars, active, qpc, qreq, wsVars, bridgeVars>>

\* _send_to_all resumes after a send: the next send, or the return
start_recording_broadcast(r) ==
    /\ LoopFree
    /\ spc[r] = "broadcast"
    /\ recv' = SendFirst(recv, sreq[r].rem, StatusMsg("recording"))
    /\ sreq' = [sreq EXCEPT ![r].rem = Rest(@),
                            ![r].answer = IF sreq[r].rem = <<>> THEN 200 ELSE @]
    /\ spc' = [spc EXCEPT ![r] = IF sreq[r].rem = <<>> THEN "done" ELSE @]
    /\ UNCHANGED <<cfgVars, dbVars, bufVars, chunkVars, lifeVars, objVars,
                   threadVars, logVars, active, qpc, qreq, sock, csess, bridgeVars>>

(***************************************************************************)
(* stop_recording, request q, and RecordingWorker.stop(), which it calls   *)
(* on the event loop's thread.                                             *)
(***************************************************************************)
\* the registry's check; worker = entry["worker"]; worker.stop() begins:
\* self._running = False
stop_recording_begin(q, s) ==
    /\ LoopFree
    /\ qpc[q] = "idle"
    /\ q <= env.stops
    /\ \A q2 \in StopReqs : q2 < q => qpc[q2] # "idle"
    /\ IF ~active[s].present \/ active[s].worker = 0
       THEN /\ qpc' = [qpc EXCEPT ![q] = "done"]
            /\ qreq' = [qreq EXCEPT ![q].session = s, ![q].answer = 400]
            /\ UNCHANGED <<running, tpc, loc>>
       ELSE /\ qpc' = [qpc EXCEPT ![q] = "stopping"]
            /\ qreq' = [qreq EXCEPT ![q].session = s, ![q].worker = active[s].worker]
            /\ running' = [running EXCEPT ![active[s].worker] = FALSE]
            /\ tpc' = [tpc EXCEPT ![MainThread] = "stop_stream"]
            /\ loc' = [loc EXCEPT ![MainThread] =
                          [NoLocals EXCEPT !.w = active[s].worker, !.req = q]]
    /\ UNCHANGED <<cfgVars, dbVars, bufVars, chunkVars, stream, thread, objVars,
                   apc, logVars, active, spc, sreq, wsVars, bridgeVars>>

\* if self._stream: self._stream.stop(); self._stream.close()
\* (stop() returns when the callback in progress has returned)
stop_close_stream ==
    /\ tpc[MainThread] = "stop_stream"
    /\ LET w == loc[MainThread].w
       IN  IF stream[w] = "open"
           THEN /\ apc[w] = "idle"
                /\ stream' = [stream EXCEPT ![w] = "none"]
           ELSE UNCHANGED stream
    /\ tpc' = [tpc EXCEPT ![MainThread] = "join"]
    /\ UNCHANGED <<cfgVars, dbVars, bufVars, chunkVars, running, thread, objVars,
                   apc, loc, logVars, routeVars>>

\* if self._thread: self._thread.join(timeout=10): the thread has ended
stop_join ==
    /\ tpc[MainThread] = "join"
    /\ LET w == loc[MainThread].w
       IN  IF thread[w] = "set"
           THEN /\ LoopThreadDone(w)
                /\ thread' = [thread EXCEPT ![w] = "none"]
           ELSE UNCHANGED thread
    /\ tpc' = [tpc EXCEPT ![MainThread] = "flush_lock"]
    /\ UNCHANGED <<cfgVars, dbVars, bufVars, chunkVars, running, stream, objVars,
                   apc, loc, logVars, routeVars>>

\* join(timeout=10) returns with the thread still inside a transcription
stop_join_timeout ==
    /\ tpc[MainThread] = "join"
    /\ "timeout" \in env.faults
    /\ LET w == loc[MainThread].w
       IN  /\ thread[w] = "set"
           /\ tpc[w] = "transcribe"
           /\ thread' = [thread EXCEPT ![w] = "none"]
    /\ tpc' = [tpc EXCEPT ![MainThread] = "flush_lock"]
    /\ UNCHANGED <<cfgVars, dbVars, bufVars, chunkVars, running, stream, objVars,
                   apc, loc, logVars, routeVars>>

\* _flush_remaining: with self._lock:
flush_lock ==
    /\ tpc[MainThread] = "flush_lock"
    /\ lock[loc[MainThread].w] = "free"
    /\ lock' = [lock EXCEPT ![loc[MainThread].w] = "flush"]
    /\ tpc' = [tpc EXCEPT ![MainThread] = "flush_snapshot"]
    /\ UNCHANGED <<cfgVars, dbVars, buffer, total_samples, chunkVars, lifeVars,
                   objVars, apc, loc, logVars, routeVars>>

\* a remainder of exactly one second taken for too short
FlushWorthwhileStrict(remaining) == remaining > settings.sample_rate

\* if len(remaining) < self.sample_rate: return
FlushWorthwhile(remaining) == ~(remaining < settings.sample_rate)

\* a remainder cut to one second
RemainingLenOneSecond(full_audio, lce) ==
    IF lce < full_audio
    THEN (IF full_audio - lce > settings.sample_rate
          THEN settings.sample_rate ELSE full_audio - lce)
    ELSE 0

\* len(full_audio[self._last_chunk_end:])
RemainingLen(full_audio, lce) == IF lce < full_audio THEN full_audio - lce ELSE 0

\* if not self._buffer: return; the snapshot; the remainder is processed
\* when it is long enough
flush_snapshot ==
    /\ tpc[MainThread] = "flush_snapshot"
    /\ LET w == loc[MainThread].w
           full_audio == ConcatLen(w)
           lce == last_chunk_end[w]
       IN  /\ lock' = [lock EXCEPT ![w] = "free"]
           /\ IF buffer[w] # <<>> /\ FlushWorthwhile(RemainingLen(full_audio, lce))
              THEN /\ EnterProcess(MainThread, w,
                                   <<lce, lce + RemainingLen(full_audio, lce)>>,
                                   full_audio)
                   /\ UNCHANGED heard
              ELSE /\ tpc' = [tpc EXCEPT ![MainThread] = "stop_return"]
                   /\ UNCHANGED <<loc, logVars>>
    /\ UNCHANGED <<cfgVars, dbVars, buffer, total_samples, chunkVars, lifeVars,
                   objVars, apc, routeVars>>

\* self._last_chunk_end = len(full_audio); self._chunk_index += 1
flush_advance ==
    /\ tpc[MainThread] = "advance"
    /\ LET w == loc[MainThread].w
       IN  /\ last_chunk_end' = [last_chunk_end EXCEPT ![w] = loc[MainThread].full_audio]
           /\ chunk_index' = [chunk_index EXCEPT ![w] = @ + 1]
    /\ tpc' = [tpc EXCEPT ![MainThread] = "stop_return"]
    /\ UNCHANGED <<cfgVars, dbVars, bufVars, lifeVars, objVars, apc, loc, logVars,
                   routeVars>>

\* stop() has returned and the worker of every entry is forgotten
stop_recording_resume_clears_all(q) ==
    /\ tpc[MainThread] = "stop_return"
    /\ loc[MainThread].req = q
    /\ active' = [s \in SessionIds |-> [active[s] EXCEPT !.worker = 0]]
    /\ tpc' = [tpc EXCEPT ![MainThread] = "idle"]
    /\ loc' = [loc EXCEPT ![MainThread] = NoLocals]
    /\ qpc' = [qpc EXCEPT ![q] = "select"]
    /\ qreq' = [qreq EXCEPT ![q].ahead = Len(queue)]
    /\ UNCHANGED <<cfgVars, dbVars, bufVars, chunkVars, lifeVars, objVars, apc,
                   logVars, spc, sreq, wsVars, bridgeVars>>

\* stop() has returned: entry["worker"] = None, up to the first await,
\* await get_async_conn(); the coroutines submitted so far were scheduled on
\* the loop before the connection's result can be: they are ahead of the
\* request's resumption
stop_recording_resume(q) ==
    /\ tpc[MainThread] = "stop_return"
    /\ loc[MainThread].req = q
    /\ active' = [active EXCEPT ![qreq[q].session].worker = 0]
    /\ tpc' = [tpc EXCEPT ![MainThread] = "idle"]
    /\ loc' = [loc EXCEPT ![MainThread] = NoLocals]
    /\ qpc' = [qpc EXCEPT ![q] = "select"]
    /\ qreq' = [qreq EXCEPT ![q].ahead = Len(queue)]
    /\ UNCHANGED <<cfgVars, dbVars, bufVars, chunkVars, lifeVars, objVars, apc,
                   logVars, spc, sreq, wsVars, bridgeVars>>

\* the rows of a session, ORDER BY chunk_index
RowsOf(s) == SelectSeq(chunks, LAMBDA row : row.session_id = s)

\* SELECT * FROM transcript_chunks ...; chunks.json is written
stop_recording_select(q) ==
    /\ LoopFree
    /\ qpc[q] = "select"
    /\ qreq[q].ahead = 0
    /\ qreq' = [qreq EXCEPT ![q].chunks = Len(RowsOf(qreq[q].session))]
    /\ qpc' = [qpc EXCEPT ![q] = "update"]
    /\ UNCHANGED <<cfgVars, dbVars, bufVars, chunkVars, lifeVars, objVars,
                   threadVars, logVars, active, spc, sreq, wsVars, bridgeVars>>

\* UPDATE sessions SET status = 'stopped'; commit; the index is written
\* and the broadcast of "stopped" begins
stop_recording_update(q) ==
    /\ LoopFree
    /\ qpc[q] = "update"
    /\ LET s == qreq[q].session
           to == Recipients(s)
       IN  /\ status' = [status EXCEPT ![s] = "stopped"]
           /\ recv' = SendFirst(recv, to, StatusMsg("stopped"))
           /\ qreq' = [qreq EXCEPT ![q].rem = Rest(to),
                                   ![q].answer = IF to = <<>> THEN 200 ELSE @]
           /\ qpc' = [qpc EXCEPT ![q] = IF to = <<>> THEN "done" ELSE "broadcast"]
    /\ UNCHANGED <<cfgVars, chunks, bufVars, chunkVars, lifeVars, objVars,
                   threadVars, logVars, active, spc, sreq, sock, csess, bridgeVars>>

\* _send_to_all resumes after a send: the next send, or the return
stop_recording_broadcast(q) ==
    /\ LoopFree
    /\ qpc[q] = "broadcast"
    /\ recv' = SendFirst(recv, qreq[q].rem, StatusMsg("stopped"))
    /\ qreq' = [qreq EXCEPT ![q].rem = Rest(@),
                            ![q].answer = IF qreq[q].rem = <<>> THEN 200 ELSE @]
    /\ qpc' = [qpc EXCEPT ![q] = IF qreq[q].rem = <<>> THEN "done" ELSE @]
    /\ UNCHANGED <<cfgVars, dbVars, bufVars, chunkVars, lifeVars, objVars,
                   threadVars, logVars, active, spc, sreq, sock, csess, bridgeVars>>

(***************************************************************************)
(* websocket_endpoint, client c.                                           *)
(***************************************************************************)
\* the client connects: await websocket.accept()
ws_connect(c, s) ==
    /\ LoopFree
    /\ sock[c] = "none"
    /\ c <= env.clients
    /\ \A c2 \in Clients : c2 < c => sock[c2] # "none"
    /\ sock' = [sock EXCEPT ![c] = "accepting"]
    /\ csess' = [csess EXCEPT ![c] = s]
    /\ UNCHANGED <<cfgVars, dbVars, bufVars, chunkVars, lifeVars, objVars,
                   threadVars, logVars, active, reqVars, recv, bridgeVars>>

\* the status sent on attach: worker is not None and worker.is_running
AttachStatus(s) ==
    IF active[s].present /\ active[s].worker # 0 /\ running[active[s].worker]
    THEN "recording" ELSE "idle"

\* the socket registered with no status sent to it
ws_attach_registers_only(c) ==
    /\ LoopFree
    /\ sock[c] = "accepting"
    /\ LET s == csess[c]
       IN  active' = [active EXCEPT ![s] =
               [present |-> TRUE,
                worker |-> IF @.present THEN @.worker ELSE 0,
                websockets |-> Append(Recipients(s), c),
                data_dir |-> IF @.present THEN @.data_dir ELSE ""]]
    /\ sock' = [sock EXCEPT ![c] = "open"]
    /\ UNCHANGED <<cfgVars, dbVars, bufVars, chunkVars, lifeVars, objVars,
                   threadVars, logVars, reqVars, csess, recv, bridgeVars>>

\* the entry is made if there is none, the socket appended, the status sent
ws_attach(c) ==
    /\ LoopFree
    /\ sock[c] = "accepting"
    /\ LET s == csess[c]
       IN  /\ active' = [active EXCEPT ![s] =
                   [present |-> TRUE,
                    worker |-> IF @.present THEN @.worker ELSE 0,
                    websockets |-> Append(Recipients(s), c),
                    data_dir |-> IF @.present THEN @.data_dir ELSE ""]]
           /\ recv' = [recv EXCEPT ![c] = Append(@, StatusMsg(AttachStatus(s)))]
    /\ sock' = [sock EXCEPT ![c] = "open"]
    /\ UNCHANGED <<cfgVars, dbVars, bufVars, chunkVars, lifeVars, objVars,
                   threadVars, logVars, reqVars, csess, bridgeVars>>

\* the peer closes the connection (no code of the server runs)
client_disconnect(c) ==
    /\ sock[c] = "open"
    /\ sock' = [sock EXCEPT ![c] = "closed"]
    /\ UNCHANGED <<cfgVars, dbVars, bufVars, chunkVars, lifeVars, objVars,
                   threadVars, logVars, active, reqVars, csess, recv, bridgeVars>>

\* a removal that empties the list
WithoutAnyone(list, c) == <<>>

\* ws_list.remove(websocket)
Without(list, c) == SelectSeq(list, LAMBDA x : x # c)

\* except WebSocketDisconnect: the socket is removed, and the entry too
\* when it has no socket and no worker left
ws_disconnect(c) ==
    /\ LoopFree
    /\ sock[c] = "closed"
    /\ LET s == csess[c]
           left == Without(active[s].websockets, c)
       IN  active' = [active EXCEPT ![s] =
               IF ~@.present THEN @
               ELSE IF left = <<>> /\ @.worker = 0 THEN NoEntry
               ELSE [@ EXCEPT !.websockets = left]]
    /\ sock' = [sock EXCEPT ![c] = "done"]
    /\ UNCHANGED <<cfgVars, dbVars, bufVars, chunkVars, lifeVars, objVars,
                   threadVars, logVars, reqVars, csess, recv, bridgeVars>>

(***************************************************************************)
(* _handle_chunk_transcribed, one task per notification of the bridge.     *)
(***************************************************************************)
\* notes asked for after every chunk
NotesDueEveryChunk(meta) == TRUE

\* if (chunk_meta["chunk_index"] + 1) % settings.live_notes_interval_chunks == 0
NotesDue(meta) == (meta.chunk_index + 1) % settings.live_notes_interval_chunks = 0

\* the task list when task i has returned
Ended(ts, i) == [j \in 1 .. Len(ts) - 1 |-> IF j < i THEN ts[j] ELSE ts[j + 1]]

\* the task list after task i has ended its broadcast: _trigger_live_notes
\* runs to its first await, get_async_conn()
AfterBroadcast(ts, i) ==
    IF NotesDue(ts[i].meta) THEN [ts EXCEPT ![i].pc = "notes"] ELSE Ended(ts, i)

\* the loop starts the coroutines in the order they were submitted; the
\* task runs to the await of its first send
handle_chunk_start ==
    /\ LoopFree
    /\ queue # <<>>
    /\ LET meta == Head(queue)
           to == Recipients(meta.session_id)
           task == [meta |-> meta, to |-> to, rem |-> Rest(to), pc |-> "broadcast",
                    call |-> 0]
       IN  /\ recv' = SendFirst(recv, to, ChunkMsg(meta))
           /\ tasks' = IF to = <<>>
                       THEN AfterBroadcast(Append(tasks, task), Len(tasks) + 1)
                       ELSE Append(tasks, task)
    /\ queue' = Tail(queue)
    /\ qreq' = [q \in StopReqs |->
                   [qreq[q] EXCEPT !.ahead = IF @ > 0 THEN @ - 1 ELSE 0]]
    /\ UNCHANGED <<cfgVars, dbVars, bufVars, chunkVars, lifeVars, objVars,
                   threadVars, logVars, active, spc, sreq, qpc, sock, csess,
                   notesVars>>

\* _send_to_all resumes after a send: the next send, or the return
handle_chunk_broadcast(i) ==
    /\ LoopFree
    /\ i \in 1 .. Len(tasks)
    /\ tasks[i].pc = "broadcast"
    /\ recv' = SendFirst(recv, tasks[i].rem, ChunkMsg(tasks[i].meta))
    /\ tasks' = IF tasks[i].rem = <<>>
                THEN AfterBroadcast(tasks, i)
                ELSE [tasks EXCEPT ![i].rem = Tail(@)]
    /\ UNCHANGED <<cfgVars, dbVars, bufVars, chunkVars, lifeVars, objVars,
                   threadVars, logVars, active, reqVars, sock, csess, queue,
                   notesVars>>

(***************************************************************************)
(* _trigger_live_notes, inside the task of a chunk whose notes are due.    *)
(***************************************************************************)
\* data_dir = _active.get(session_id, {}).get("data_dir", "")
DataDir(s) == IF active[s].present THEN active[s].data_dir ELSE ""

\* existing_notes: the draft's text if the file exists, named by the call
\* that wrote it; 0 is the empty string
ExistingNotes(s) ==
    IF DataDir(s) # "" /\ live_draft[s] # <<>>
    THEN live_draft[s][Len(live_draft[s])] ELSE 0

\* the trigger waiting while a call of the session is outstanding
trigger_live_notes_select_guarded(i) ==
    /\ LoopFree
    /\ i \in 1 .. Len(tasks)
    /\ tasks[i].pc = "notes"
    /\ \A n \in 1 .. Len(notes_calls) :
           ~(/\ notes_calls[n].session_id = tasks[i].meta.session_id
             /\ notes_calls[n].outcome = "pending")
    /\ notes_calls' = Append(notes_calls,
           [session_id |-> tasks[i].meta.session_id,
            chunk_index |-> tasks[i].meta.chunk_index,
            chunks |-> Len(RowsOf(tasks[i].meta.session_id)),
            existing_notes |-> ExistingNotes(tasks[i].meta.session_id),
            outcome |-> "pending"])
    /\ tasks' = [tasks EXCEPT ![i].pc = "generate", ![i].call = Len(notes_calls) + 1]
    /\ UNCHANGED <<cfgVars, dbVars, bufVars, chunkVars, lifeVars, objVars,
                   threadVars, logVars, active, reqVars, wsVars, queue, live_draft>>

\* the SELECT of the session's chunks; if not chunks: return; the draft is
\* read and generate_live_notes(chunks, existing_notes) is called
trigger_live_notes_select(i) ==
    /\ LoopFree
    /\ i \in 1 .. Len(tasks)
    /\ tasks[i].pc = "notes"
    /\ LET s == tasks[i].meta.session_id
           rows == RowsOf(s)
       IN  IF rows = <<>>
           THEN /\ tasks' = Ended(tasks, i)
                /\ UNCHANGED notes_calls
           ELSE /\ notes_calls' = Append(notes_calls,
                       [session_id |-> s, chunk_index |-> tasks[i].meta.chunk_index,
                        chunks |-> Len(rows), existing_notes |-> ExistingNotes(s),
                        outcome |-> "pending"])
                /\ tasks' = [tasks EXCEPT ![i].pc = "generate",
                                          ![i].call = Len(notes_calls) + 1]
    /\ UNCHANGED <<cfgVars, dbVars, bufVars, chunkVars, lifeVars, objVars,
                   threadVars, logVars, active, reqVars, wsVars, queue, live_draft>>

\* generate_live_notes returns: if data_dir: write_text(notes_path, live_notes);
\* the broadcast of "live_notes_updated" begins
live_notes_generated(i) ==
    /\ LoopFree
    /\ i \in 1 .. Len(tasks)
    /\ tasks[i].pc = "generate"
    /\ LET s == tasks[i].meta.session_id
           n == tasks[i].call
           to == Recipients(s)
       IN  /\ notes_calls' = [notes_calls EXCEPT ![n].outcome = "returned"]
           /\ live_draft' = IF DataDir(s) # ""
                             THEN [live_draft EXCEPT ![s] = Append(@, n)]
                             ELSE live_draft
           /\ recv' = SendFirst(recv, to, NotesMsg(n))
           /\ tasks' = IF to = <<>>
                       THEN Ended(tasks, i)
                       ELSE [tasks EXCEPT ![i].pc = "notes_broadcast",
                                          ![i].rem = Rest(to)]
    /\ UNCHANGED <<cfgVars, dbVars, bufVars, chunkVars, lifeVars, objVars,
                   threadVars, logVars, active, reqVars, sock, csess, queue>>

\* the call raises and the task asks for the notes again
live_notes_fails_retries(i) ==
    /\ LoopFree
    /\ i \in 1 .. Len(tasks)
    /\ tasks[i].pc = "generate"
    /\ "notes" \in env.faults
    /\ notes_calls' = [notes_calls EXCEPT ![tasks[i].call].outcome = "raised"]
    /\ tasks' = [tasks EXCEPT ![i].pc = "notes", ![i].call = 0]
    /\ UNCHANGED <<cfgVars, dbVars, bufVars, chunkVars, lifeVars, objVars,
                   threadVars, logVars, active, reqVars, wsVars, queue, live_draft>>

\* generate_live_notes raises: except Exception: pass
live_notes_fails(i) ==
    /\ LoopFree
    /\ i \in 1 .. Len(tasks)
    /\ tasks[i].pc = "generate"
    /\ "notes" \in env.faults
    /\ notes_calls' = [notes_calls EXCEPT ![tasks[i].call].outcome = "raised"]
    /\ tasks' = Ended(tasks, i)
    /\ UNCHANGED <<cfgVars, dbVars, bufVars, chunkVars, lifeVars, objVars,
                   threadVars, logVars, active, reqVars, wsVars, queue, live_draft>>

\* _send_to_all resumes after a send: the next send, or the return
live_notes_broadcast(i) ==
    /\ LoopFree
    /\ i \in 1 .. Len(tasks)
    /\ tasks[i].pc = "notes_broadcast"
    /\ recv' = SendFirst(recv, tasks[i].rem, NotesMsg(tasks[i].call))
    /\ tasks' = IF tasks[i].rem = <<>>
                THEN Ended(tasks, i)
                ELSE [tasks EXCEPT ![i].rem = Tail(@)]
    /\ UNCHANGED <<cfgVars, dbVars, bufVars, chunkVars, lifeVars, objVars,
                   threadVars, logVars, active, reqVars, sock, csess, queue,
                   notesVars>>

(***************************************************************************)
(* compute_chunk_boundaries step by step, in the frame of thread t:        *)
(* args = <<total_samples, last_chunk_end, samples_per_chunk>>, the locals *)
(* pos and boundaries, and the results the caller got so far.              *)
(***************************************************************************)
BoundariesFrame(args) ==
    [args |-> args, pos |-> 0, boundaries |-> <<>>, returned |-> <<>>]

\* the list kept from the call before
boundaries_call_keeps_list(t) ==
    /\ tpc[t] = "boundaries_call"
    /\ loc' = [loc EXCEPT ![t].pos = loc[t].args[2]]
    /\ tpc' = [tpc EXCEPT ![t] = "boundaries_while"]
    /\ UNCHANGED <<cfgVars, dbVars, bufVars, chunkVars, lifeVars, objVars, apc,
                   logVars, routeVars>>

\* boundaries = []; pos = last_chunk_end
boundaries_call(t) ==
    /\ tpc[t] = "boundaries_call"
    /\ loc' = [loc EXCEPT ![t].boundaries = <<>>, ![t].pos = loc[t].args[2]]
    /\ tpc' = [tpc EXCEPT ![t] = "boundaries_while"]
    /\ UNCHANGED <<cfgVars, dbVars, bufVars, chunkVars, lifeVars, objVars, apc,
                   logVars, routeVars>>

\* the loop with the test pos + samples_per_chunk < total_samples
boundaries_while_strict(t) ==
    /\ tpc[t] = "boundaries_while"
    /\ LET f == loc[t]
       IN  IF f.pos + f.args[3] < f.args[1]
           THEN /\ loc' = [loc EXCEPT
                        ![t].boundaries = Append(@, <<f.pos, f.pos + f.args[3]>>),
                        ![t].pos = f.pos + f.args[3]]
                /\ UNCHANGED tpc
           ELSE /\ tpc' = [tpc EXCEPT ![t] = "boundaries_return"]
                /\ UNCHANGED loc
    /\ UNCHANGED <<cfgVars, dbVars, bufVars, chunkVars, lifeVars, objVars, apc,
                   logVars, routeVars>>

\* while pos + samples_per_chunk <= total_samples:
\*     boundaries.append((pos, pos + samples_per_chunk)); pos += samples_per_chunk
boundaries_while(t) ==
    /\ tpc[t] = "boundaries_while"
    /\ LET f == loc[t]
       IN  IF f.pos + f.args[3] <= f.args[1]
           THEN /\ loc' = [loc EXCEPT
                        ![t].boundaries = Append(@, <<f.pos, f.pos + f.args[3]>>),
                        ![t].pos = f.pos + f.args[3]]
                /\ UNCHANGED tpc
           ELSE /\ tpc' = [tpc EXCEPT ![t] = "boundaries_return"]
                /\ UNCHANGED loc
    /\ UNCHANGED <<cfgVars, dbVars, bufVars, chunkVars, lifeVars, objVars, apc,
                   logVars, routeVars>>

\* return boundaries; the caller calls again with the same arguments
boundaries_return(t) ==
    /\ tpc[t] = "boundaries_return"
    /\ loc' = [loc EXCEPT ![t].returned = Append(@, loc[t].boundaries)]
    /\ tpc' = [tpc EXCEPT ![t] = IF Len(loc[t].returned) + 1 < MaxCalls
                                 THEN "boundaries_call" ELSE "boundaries_done"]
    /\ UNCHANGED <<cfgVars, dbVars, bufVars, chunkVars, lifeVars, objVars, apc,
                   logVars, routeVars>>

(***************************************************************************)
(* The state after the server has started.                                 *)
(***************************************************************************)
Settings(rate) ==
    [sample_rate |-> rate,
     chunk_duration_seconds |-> chunk_duration_seconds,
     live_notes_interval_chunks |-> live_notes_interval_chunks]

\* LIVE_NOTES_INTERVAL_CHUNKS set in the environment
SettingsEvery(rate, n) == [Settings(rate) EXCEPT !.live_notes_interval_chunks = n]

StartState(e, cfg) ==
    /\ env = e
    /\ settings = cfg
    /\ status = [s \in SessionIds |-> "absent"]
    /\ chunks = <<>>
    /\ session_id = [w \in Workers |-> 0]
    /\ buffer = [w \in Workers |-> <<>>]
    /\ total_samples = [w \in Workers |-> 0]
    /\ lock = [w \in Workers |-> "free"]
    /\ last_chunk_end = [w \in Workers |-> 0]
    /\ chunk_index = [w \in Workers |-> 0]
    /\ running = [w \in Workers |-> FALSE]
    /\ stream = [w \in Workers |-> "none"]
    /\ thread = [w \in Workers |-> "none"]
    /\ callbacks = [w \in Workers |-> <<>>]
    /\ apc = [w \in Workers |-> "idle"]
    /\ wav_writes = <<>>
    /\ heard = [w \in Workers |-> <<>>]
    /\ active = [s \in SessionIds |-> NoEntry]
    /\ spc = [r \in StartReqs |-> "idle"]
    /\ sreq = [r \in StartReqs |->
                 [session |-> 0, before |-> "", answer |-> 0, rem |-> <<>>]]
    /\ qpc = [q \in StopReqs |-> "idle"]
    /\ qreq = [q \in StopReqs |->
                 [session |-> 0, worker |-> 0, answer |-> 0, chunks |-> 0,
                  rem |-> <<>>, ahead |-> 0]]
    /\ sock = [c \in Clients |-> "none"]
    /\ csess = [c \in Clients |-> 0]
    /\ recv = [c \in Clients |-> <<>>]
    /\ queue = <<>>
    /\ tasks = <<>>
    /\ notes_calls = <<>>
    /\ live_draft = [s \in SessionIds |-> <<>>]

Start(e, cfg) ==
    /\ StartState(e, cfg)
    /\ tpc = [t \in Threads |-> IF t = MainThread THEN "idle" ELSE "unstarted"]
    /\ loc = [t \in Threads |-> NoLocals]

(***************************************************************************)
(* The steps, by execution context.                                        *)
(***************************************************************************)
AudioThread ==
    \E w \in Workers :
        \/ audio_callback_enter(w)
        \/ audio_callback_append(w)
        \/ audio_callback_count(w)

LoopThread ==
    \E w \in Workers :
        \/ worker_loop_test(w)
        \/ poll_lock_total(w)
        \/ poll_read_total(w)
        \/ poll_lock_snapshot(w)
        \/ poll_snapshot(w)
        \/ poll_for(w)
        \/ poll_advance(w)
        \/ worker_loop_wait(w)

\* the polls that find no boundary: steps 3 to 5 of a poll do not run
IdlePolls ==
    \E w \in Workers :
        \/ worker_loop_test(w)
        \/ poll_lock_total(w)
        \/ poll_read_total(w)
        \/ worker_loop_wait(w)

Processor ==
    \E t \in Threads :
        \/ process_transcribe(t)
        \/ process_insert(t)
        \/ process_fire(t)

StopCall ==
    \/ stop_close_stream
    \/ stop_join
    \/ flush_lock
    \/ flush_snapshot
    \/ flush_advance

StartRequests ==
    \/ \E s \in 1 .. env.sessions : create_session(s)
    \/ \E r \in StartReqs, s \in 1 .. env.sessions : start_recording_begin(r, s)
    \/ \E r \in StartReqs :
        \/ start_recording_db(r)
        \/ start_recording_register(r)

StopRequests ==
    \/ \E q \in StopReqs, s \in 1 .. env.sessions : stop_recording_begin(q, s)
    \/ \E q \in StopReqs :
        \/ stop_recording_resume(q)
        \/ stop_recording_select(q)
        \/ stop_recording_update(q)

Sockets ==
    \/ \E c \in Clients, s \in 1 .. env.sessions : ws_connect(c, s)
    \/ \E c \in Clients :
        \/ ws_attach(c)
        \/ client_disconnect(c)
        \/ ws_disconnect(c)

\* the continuations of the broadcasts, which need a subscriber
Broadcasts ==
    \/ \E r \in StartReqs : start_recording_broadcast(r)
    \/ \E q \in StopReqs : stop_recording_broadcast(q)
    \/ \E i \in 1 .. Len(tasks) : handle_chunk_broadcast(i)

\* the steps of _trigger_live_notes
LiveNotes ==
    \E i \in 1 .. Len(tasks) :
        \/ trigger_live_notes_select(i)
        \/ live_notes_generated(i)
        \/ live_notes_fails(i)
        \/ live_notes_broadcast(i)

OpenFailure == \E r \in StartReqs : start_recording_open_fails(r) \/ start_recording_revert(r)

ProcessorFailure == \E t \in Threads : transcribe_raises(t) \/ insert_raises(t)

Listeners == \E w \in Workers, kind \in {"raising", "recording"} : on_chunk_transcribed(w, kind)

(***************************************************************************)
(* Specifications.  Each fixes what the environment does and lists the     *)
(* steps that environment enables.                                         *)
(***************************************************************************)
\* one recording of one session; the join of stop() may time out
EnvPipeline == [blocks |-> PipelineBlocks, starts |-> 1, stops |-> 1, clients |-> 0,
                listeners |-> 0, sessions |-> 1, faults |-> {"timeout"}]

InitPipeline == Start(EnvPipeline, Settings(sample_rate))

NextPipeline ==
    \/ AudioThread
    \/ LoopThread
    \/ Processor
    \/ StopCall
    \/ stop_join_timeout
    \/ StartRequests
    \/ StopRequests
    \/ handle_chunk_start

SpecPipeline == InitPipeline /\ [][NextPipeline]_vars

\* one recording with subscribers; nothing fails
EnvBroadcast == [blocks |-> BroadcastBlocks, starts |-> 1, stops |-> 1,
                 clients |-> BroadcastClients, listeners |-> 0, sessions |-> 1,
                 faults |-> {}]

InitBroadcast == Start(EnvBroadcast, Settings(coarse_sample_rate))

NextBroadcast ==
    \/ AudioThread
    \/ LoopThread
    \/ Processor
    \/ StopCall
    \/ StartRequests
    \/ StopRequests
    \/ handle_chunk_start
    \/ Sockets
    \/ Broadcasts

SpecBroadcast == InitBroadcast /\ [][NextBroadcast]_vars

\* one recording with a subscriber and live notes every NotesInterval
\* chunks; the notes' generation may fail
EnvNotes == [blocks |-> NotesBlocks, starts |-> 1, stops |-> 1,
             clients |-> NotesClients, listeners |-> 0, sessions |-> 1,
             faults |-> {"notes"}]

InitNotes == Start(EnvNotes, SettingsEvery(coarse_sample_rate, NotesInterval))

NextNotes ==
    \/ AudioThread
    \/ LoopThread
    \/ Processor
    \/ StopCall
    \/ StartRequests
    \/ StopRequests
    \/ handle_chunk_start
    \/ Sockets
    \/ Broadcasts
    \/ LiveNotes

SpecNotes == InitNotes /\ [][NextNotes]_vars

\* one recording without subscribers whose live notes are due after every
\* chunk and whose generation does not fail
EnvNotesRace == [blocks |-> RaceBlocks, starts |-> 1, stops |-> 1, clients |-> 0,
                 listeners |-> 0, sessions |-> 1, faults |-> {}]

InitNotesRace == Start(EnvNotesRace, SettingsEvery(coarse_sample_rate, 1))

NextNotesRace ==
    \/ AudioThread
    \/ LoopThread
    \/ Processor
    \/ StopCall
    \/ StartRequests
    \/ StopRequests
    \/ handle_chunk_start
    \/ \E i \in 1 .. Len(tasks) : trigger_live_notes_select(i)
    \/ \E i \in 1 .. Len(tasks) : live_notes_generated(i)

SpecNotesRace == InitNotesRace /\ [][NextNotesRace]_vars

\* one recording whose threads are scheduled fairly: a thread that can take
\* a step takes one, the callback in progress returns, and stop() and the
\* chunk processor go on; the join of stop() may time out
EnvFair == [blocks |-> FairBlocks, starts |-> 1, stops |-> 1, clients |-> 0,
            listeners |-> 0, sessions |-> 1, faults |-> {"timeout"}]

InitFair == Start(EnvFair, Settings(coarse_sample_rate))

NextFair ==
    \/ AudioThread
    \/ LoopThread
    \/ Processor
    \/ StopCall
    \/ stop_join_timeout
    \/ StartRequests
    \/ StopRequests
    \/ handle_chunk_start

CallbackReturns == \E w \in Workers : audio_callback_append(w) \/ audio_callback_count(w)

Fairness ==
    /\ WF_vars(LoopThread)
    /\ WF_vars(Processor)
    /\ WF_vars(StopCall)
    /\ WF_vars(CallbackReturns)

SpecFair == InitFair /\ [][NextFair]_vars /\ Fairness

\* recordings of several sessions at the same time, with a subscriber; each
\* stream delivers less than a chunk, so that every poll is idle and the
\* chunks are those of the flush passes
EnvSessions == [blocks |-> SessionsBlocks, starts |-> 2, stops |-> 1, clients |-> 1,
                listeners |-> 0, sessions |-> MaxSessions, faults |-> {}]

InitSessions == Start(EnvSessions, Settings(coarse_sample_rate))

NextSessions ==
    \/ AudioThread
    \/ IdlePolls
    \/ Processor
    \/ StopCall
    \/ StartRequests
    \/ StopRequests
    \/ handle_chunk_start
    \/ Sockets
    \/ Broadcasts

SpecSessions == InitSessions /\ [][NextSessions]_vars

\* several start and stop requests on one session; nothing fails
EnvRestart == [blocks |-> RestartBlocks, starts |-> RestartStarts,
               stops |-> RestartStops, clients |-> 0, listeners |-> 0,
               sessions |-> 1, faults |-> {}]

InitRestart == Start(EnvRestart, Settings(coarse_sample_rate))

NextRestart ==
    \/ AudioThread
    \/ LoopThread
    \/ Processor
    \/ StopCall
    \/ StartRequests
    \/ StopRequests
    \/ handle_chunk_start

SpecRestart == InitRestart /\ [][NextRestart]_vars

\* start and stop requests on one session; the device may fail to open
EnvOpenFailure == [blocks |-> OpenBlocks, starts |-> OpenStarts, stops |-> 1,
                   clients |-> 0, listeners |-> 0, sessions |-> 1,
                   faults |-> {"open"}]

InitOpenFailure == Start(EnvOpenFailure, Settings(coarse_sample_rate))

NextOpenFailure ==
    \/ NextRestart
    \/ OpenFailure

SpecOpenFailure == InitOpenFailure /\ [][NextOpenFailure]_vars

\* one recording; a transcription or an insertion may fail
EnvFailure == [blocks |-> FailureBlocks, starts |-> 1, stops |-> FailureStops,
               clients |-> 0, listeners |-> 0,
               sessions |-> 1, faults |-> {"transcribe", "insert"}]

InitFailure == Start(EnvFailure, Settings(coarse_sample_rate))

NextFailure ==
    \/ NextRestart
    \/ ProcessorFailure

SpecFailure == InitFailure /\ [][NextFailure]_vars

\* one recording whose worker has more listeners than the bridge
EnvListeners == [blocks |-> ListenerBlocks, starts |-> 1, stops |-> 1, clients |-> 0,
                 listeners |-> ListenerCount, sessions |-> 1, faults |-> {}]

InitListeners == Start(EnvListeners, Settings(coarse_sample_rate))

NextListeners ==
    \/ NextRestart
    \/ Listeners

SpecListeners == InitListeners /\ [][NextListeners]_vars

\* compute_chunk_boundaries alone: thread 1 calls it MaxCalls times with
\* arguments drawn from the bounded ranges and the two documented examples
BoundariesArgs ==
    {<<total, lce, c>> : total \in 0 .. MaxTotal, lce \in 0 .. MaxTotal,
                         c \in 1 .. MaxChunk}
    \cup {<<96000, 0, 32000>>, <<50000, 0, 32000>>}

EnvBoundaries == [blocks |-> 0, starts |-> 0, stops |-> 0, clients |-> 0,
                  listeners |-> 0, sessions |-> 1, faults |-> {}]

InitBoundaries ==
    /\ StartState(EnvBoundaries, Settings(sample_rate))
    /\ tpc = [t \in Threads |-> IF t = 1 THEN "boundaries_call"
                                ELSE IF t = MainThread THEN "idle" ELSE "unstarted"]
    /\ \E args \in BoundariesArgs :
           /\ args[2] <= args[1]
           /\ loc = [t \in Threads |-> IF t = 1 THEN BoundariesFrame(args)
                                       ELSE NoLocals]

NextBoundaries ==
    \/ boundaries_call(1)
    \/ boundaries_while(1)
    \/ boundaries_return(1)

SpecBoundaries == InitBoundaries /\ [][NextBoundaries]_vars

\* the end-to-end scenario: one recording at 16000 samples per second with
\* chunks of 2 seconds, fed 70000 samples; nothing fails
EnvScenario == [blocks |-> ScenarioBlocks, starts |-> 1, stops |-> 1, clients |-> 0,
                listeners |-> 0, sessions |-> 1, faults |-> {}]

InitScenario == Start(EnvScenario, Settings(scenario_sample_rate))

\* every block of the scenario has been delivered
ScenarioFed ==
    \E w \in Workers : total_samples[w] = ScenarioBlocks /\ apc[w] = "idle"

\* the stop request is made once the samples have been fed
NextScenario ==
    \/ AudioThread
    \/ LoopThread
    \/ Processor
    \/ StopCall
    \/ StartRequests
    \/ ScenarioFed /\ StopRequests
    \/ handle_chunk_start

SpecScenario == InitScenario /\ [][NextScenario]_vars

(***************************************************************************)
(* Properties.                                                             *)
(***************************************************************************)
\* the chunk indices of the chunk_transcribed messages a client received
ChunkIndices(c) ==
    LET got == SelectSeq(recv[c], LAMBDA m : m.type = "chunk_transcribed")
    IN  [i \in 1 .. Len(got) |-> got[i].chunk_index]

\* C1: the chunk_transcribed messages a subscriber receives carry strictly
\* increasing chunk indices, none repeated and none skipped between the
\* first and the last: each index is the one before it plus one.
C1_SubscriberOrder ==
    \A c \in Clients :
        \A i \in 1 .. Len(ChunkIndices(c)) - 1 :
            ChunkIndices(c)[i + 1] = ChunkIndices(c)[i] + 1

\* thread t is inside _process_single_chunk
InProcessor(t) == tpc[t] \in {"transcribe", "insert", "fire"}

\* C2: no two invocations of the chunk processor for the same worker are
\* in progress at once, the flush pass of stop() included.
C2_OneProcessorAtATime ==
    \A t1, t2 \in Threads :
        InProcessor(t1) /\ InProcessor(t2) /\ loc[t1].w = loc[t2].w => t1 = t2

\* the sample ranges handed to the chunk processor for worker w, in order
Handed(w) ==
    LET mine == SelectSeq(wav_writes, LAMBDA x : x.worker = w)
    IN  [i \in 1 .. Len(mine) |-> mine[i].samples]

\* stop() has run to its end for worker w
Stopped(w) ==
    \E q \in StopReqs :
        /\ qpc[q] \in {"select", "update", "broadcast", "done"}
        /\ qreq[q].answer # 400
        /\ session_id[w] = qreq[q].session

\* C3: the ranges handed to the chunk processor are adjacent and do not
\* overlap, the first starting at offset 0 and each other one where the one
\* before it ended; once stop() has completed they cover the captured stream
\* up to a remainder shorter than one second of samples.
C3_RangesAdjacent ==
    \A w \in Workers :
        /\ \A i \in 1 .. Len(Handed(w)) :
               Handed(w)[i][1] = IF i = 1 THEN 0 ELSE Handed(w)[i - 1][2]
        /\ Stopped(w) /\ LoopThreadDone(w) =>
               LET covered == IF Handed(w) = <<>> THEN 0
                              ELSE Handed(w)[Len(Handed(w))][2]
               IN  /\ covered <= ConcatLen(w)
                   /\ ConcatLen(w) - covered < settings.sample_rate

\* C10: whenever the buffer lock is free, totalSamples equals the sum of the
\* lengths of the buffered blocks, and a step changes either of them only
\* when the audio callback holds the lock.
C10_CounterMatchesBuffer ==
    /\ [](\A w \in Workers : lock[w] = "free" => total_samples[w] = SumSeq(buffer[w]))
    /\ [][\A w \in Workers :
              buffer'[w] # buffer[w] \/ total_samples'[w] # total_samples[w]
                  => lock[w] = "audio"]_vars

\* blocks were appended while the polling loop and the flush pass took
\* their snapshots, the lock is free again and the counter matches
C10_Witness ==
    \E w \in Workers :
        /\ lock[w] = "free"
        /\ total_samples[w] = SumSeq(buffer[w])
        /\ total_samples[w] >= samples_per_chunk
        /\ chunk_index[w] >= 1
        /\ tpc[MainThread] = "stop_return"

\* the chunk indices of a session's rows, in insertion order
RowIndices(s) == [i \in 1 .. Len(RowsOf(s)) |-> RowsOf(s)[i].chunk_index]

\* C4: the persisted transcript log of a session holds the chunk indices
\* 0 .. n-1, each once.
C4_LogIndicesContiguous ==
    \A s \in SessionIds :
        /\ \A i, j \in 1 .. Len(RowIndices(s)) :
               RowIndices(s)[i] = RowIndices(s)[j] => i = j
        /\ \A i \in 1 .. Len(RowIndices(s)) :
               RowIndices(s)[i] \in 0 .. Len(RowIndices(s)) - 1

\* C5: once a session's status is `stopped` no request makes it
\* `recording` again or gives the session a new worker.
C5_StoppedIsFinal ==
    [][\A s \in SessionIds :
           status[s] = "stopped" =>
               /\ status'[s] = "stopped"
               /\ active'[s].worker \in {0, active[s].worker}]_vars

\* worker w has been started and not stopped: its audio source is open and
\* its polling loop runs
Started(w) == stream[w] = "open" /\ ~LoopThreadDone(w)

\* C6: at most one started worker exists for a session id.
C6_OneStartedWorker ==
    \A w1, w2 \in Workers :
        Started(w1) /\ Started(w2) /\ session_id[w1] = session_id[w2] => w1 = w2

\* C7: when the audio source fails to open, the request is answered with
\* the failure, the registry holds no worker for the session and the
\* session's status is the one it had before the request.
C7_OpenFailureRollsBack ==
    [][\A r \in StartReqs :
           spc[r] = "revert" /\ spc'[r] = "done" =>
               /\ sreq'[r].answer = 500
               /\ active'[sreq[r].session].worker = 0
               /\ status'[sreq[r].session] = sreq[r].before]_vars

\* a is the end of b
IsSuffix(a, b) ==
    /\ Len(a) <= Len(b)
    /\ \A j \in 1 .. Len(a) : a[j] = b[Len(b) - Len(a) + j]

\* C8: a listener that raises on every call changes nothing: when the
\* listeners are called for a chunk every registered listener is called with
\* it and the processor returns to its caller, which advances lastChunkEnd
\* and chunkIndex; so each listener has heard every chunk since it was
\* registered, as the bridge, registered first, has.
C8_RaisingListenerIsolated ==
    /\ [][\A t \in Threads :
              tpc[t] = "fire" /\ tpc'[t] # "fire" =>
                  /\ tpc'[t] = "advance"
                  /\ \A i \in 1 .. Len(callbacks[loc[t].w]) :
                         heard'[loc[t].w][i] =
                             Append(heard[loc[t].w][i], chunk_index[loc[t].w])]_vars
    /\ [](\A w \in Workers :
              \A i \in 1 .. Len(callbacks[w]) :
                  /\ IsSuffix(heard[w][i], heard[w][1])
                  /\ heard[w][1] = [k \in 1 .. Len(heard[w][1]) |-> k - 1]
                  /\ Len(heard[w][1]) \in {chunk_index[w], chunk_index[w] + 1})

\* a listener that raises stands before another one, and both were called
\* with chunks 0 and 1
C8_Witness ==
    \E w \in Workers :
        /\ callbacks[w] = <<"bridge", "raising", "recording">>
        /\ heard[w] = << <<0, 1>>, <<0, 1>>, <<0, 1>> >>
        /\ chunk_index[w] = 2

FailsIn(w) ==
    \/ tpc[w] = "transcribe" /\ tpc'[w] \notin {"transcribe", "insert"}
    \/ tpc[w] = "insert" /\ tpc'[w] \notin {"insert", "fire"}

C11_LockNotHeldInProcessor ==
    \A w \in Workers :
        /\ lock[w] = "loop" => tpc[w] \in {"read_total", "snapshot"}
        /\ lock[w] = "flush" =>
               tpc[MainThread] = "flush_snapshot" /\ loc[MainThread].w = w
        /\ lock[w] = "audio" => apc[w] \in {"locked", "appended"}
        /\ \A t \in Threads :
               InProcessor(t) /\ loc[t].w = w =>
                   lock[w] # (IF t = MainThread THEN "flush" ELSE "loop")

\* the polling loop is transcribing while the audio callback holds the lock
\* for an append
C11_Witness ==
    \E w \in Workers :
        /\ tpc[w] = "transcribe"
        /\ loc[w].w = w
        /\ apc[w] = "locked"
        /\ lock[w] = "audio"

\* the polling loop of worker w holds the snapshot of its current poll
HasSnapshot(w) ==
    /\ tpc[w] \in {"for", "transcribe", "insert", "fire", "advance"}
    /\ loc[w].w = w

\* C12 as stated: the length of the snapshot a poll takes never exceeds the
\* total the same poll read.
C12_SnapshotWithinTotal ==
    \A w \in Workers : HasSnapshot(w) => loc[w].full_audio <= loc[w].total

\* C12 as amended: the snapshot a poll takes is never shorter than the total
\* the same poll read, appends landing between the two reads only lengthen
\* it; so every boundary the poll computed lies within the snapshot.
C12_SnapshotCoversTotal ==
    \A w \in Workers :
        HasSnapshot(w) =>
            /\ loc[w].full_audio >= loc[w].total
            /\ \A i \in 1 .. Len(loc[w].boundaries) :
                   loc[w].boundaries[i][2] <= loc[w].full_audio

\* an append landed between the read of the total and the snapshot
C12_Witness ==
    \E w \in Workers :
        /\ tpc[w] = "for"
        /\ loc[w].w = w
        /\ loc[w].boundaries # <<>>
        /\ loc[w].full_audio > loc[w].total

\* the windows (lce + i*c, lce + (i+1)*c) for i = 0 .. (total - lce) \div c - 1
Windows(total, lce, c) ==
    [i \in 1 .. ((total - lce) \div c) |-> <<lce + (i - 1) * c, lce + i * c>>]

\* C13: for totalSamples, lastChunkEnd <= totalSamples and samplesPerChunk > 0
\* computeBoundaries returns exactly the windows
\* (lastChunkEnd + i*samplesPerChunk, lastChunkEnd + (i+1)*samplesPerChunk),
\* i = 0 .. floor((totalSamples - lastChunkEnd) / samplesPerChunk) - 1, in that
\* order, the empty list when fewer than samplesPerChunk samples are new;
\* (96000, 0, 32000) gives three windows and (50000, 0, 32000) only (0, 32000).
C13_BoundariesAreTheWindows ==
    LET f == loc[1]
    IN  \A k \in 1 .. Len(f.returned) :
            /\ f.returned[k] = Windows(f.args[1], f.args[2], f.args[3])
            /\ f.returned[k] = compute_chunk_boundaries(f.args[1], f.args[2], f.args[3])
            /\ f.args[1] - f.args[2] < f.args[3] => f.returned[k] = <<>>
            /\ f.args = <<96000, 0, 32000>> =>
                   f.returned[k] = <<<<0, 32000>>, <<32000, 64000>>, <<64000, 96000>>>>
            /\ f.args = <<50000, 0, 32000>> => f.returned[k] = <<<<0, 32000>>>>

\* a call from a lastChunkEnd past 0 returned two windows and left a remainder
C13_Witness ==
    /\ loc[1].args = <<7, 1, 2>>
    /\ loc[1].returned # <<>>
    /\ loc[1].returned[1] = <<<<1, 3>>, <<3, 5>>, <<5, 7>>>>

\* C14: computeBoundaries called again with the same arguments returns the
\* same list, and no step of a call changes the buffer, the worker or
\* anything but the frame of the call (its arguments are not changed either).
C14_BoundariesPure ==
    /\ [](\A i, j \in 1 .. Len(loc[1].returned) :
              loc[1].returned[i] = loc[1].returned[j])
    /\ [][/\ UNCHANGED <<cfgVars, dbVars, bufVars, chunkVars, lifeVars, objVars,
                         apc, logVars, routeVars>>
          /\ loc'[1].args = loc[1].args
          /\ \A t \in Threads \ {1} : loc'[t] = loc[t] /\ tpc'[t] = tpc[t]]_vars

\* two calls with the same arguments have returned, each with two windows
C14_Witness ==
    /\ Len(loc[1].returned) = 2
    /\ Len(loc[1].returned[1]) = 2
    /\ Len(loc[1].returned[2]) = 2
    /\ tpc[1] = "boundaries_done"

\* C15: the flush pass hands the remainder after lastChunkEnd to the chunk
\* processor, as one chunk, exactly when the remainder holds at least
\* sampleRate samples (exactly sampleRate is enough), and then sets
\* lastChunkEnd to the snapshot's length and adds one to chunkIndex; a shorter
\* remainder (sampleRate - 1 samples) is dropped, stop() returns, and
\* lastChunkEnd and chunkIndex are unchanged.
C15_FlushThreshold ==
    [][/\ tpc[MainThread] = "flush_snapshot" /\ tpc'[MainThread] # "flush_snapshot" =>
              LET w == loc[MainThread].w
                  len == SumSeq(buffer[w])
                  remainder == len - last_chunk_end[w]
              IN  IF remainder >= settings.sample_rate
                  THEN /\ tpc'[MainThread] = "transcribe"
                       /\ wav_writes' = Append(wav_writes,
                              [worker |-> w, chunk_index |-> chunk_index[w],
                               samples |-> <<last_chunk_end[w], len>>])
                  ELSE /\ tpc'[MainThread] = "stop_return"
                       /\ UNCHANGED <<wav_writes, chunks, last_chunk_end, chunk_index>>
       /\ tpc[MainThread] = "advance" /\ tpc'[MainThread] # "advance" =>
              LET w == loc[MainThread].w
              IN  /\ tpc'[MainThread] = "stop_return"
                  /\ last_chunk_end'[w] = loc[MainThread].samples[2]
                  /\ chunk_index'[w] = chunk_index[w] + 1]_vars

\* stop() has returned after a flush chunk of exactly one second of samples
\* that followed one full chunk
C15_Witness ==
    \E w \in Workers :
        /\ Stopped(w)
        /\ Handed(w) = <<<<0, samples_per_chunk>>,
                         <<samples_per_chunk, samples_per_chunk + settings.sample_rate>>>>
        /\ last_chunk_end[w] = samples_per_chunk + settings.sample_rate
        /\ chunk_index[w] = 2

\* stop() has returned with a remainder of one sample less than a second
\* dropped
C15_WitnessDropped ==
    \E w \in Workers :
        /\ Stopped(w)
        /\ SumSeq(buffer[w]) = samples_per_chunk + settings.sample_rate - 1
        /\ Handed(w) = <<<<0, samples_per_chunk>>>>
        /\ last_chunk_end[w] = samples_per_chunk
        /\ chunk_index[w] = 1

\* C16: when stop() has returned for a worker that captured at least one
\* second of samples but fewer than samplesPerChunk, exactly one chunk was
\* produced: it has index 0 and covers every captured sample.
C16_ShortRecordingOneChunk ==
    \A w \in Workers :
        LET len == SumSeq(buffer[w])
        IN  Stopped(w) /\ settings.sample_rate <= len /\ len < samples_per_chunk =>
                /\ SelectSeq(wav_writes, LAMBDA x : x.worker = w) =
                       <<[worker |-> w, chunk_index |-> 0, samples |-> <<0, len>>]>>
                /\ RowsOf(session_id[w]) =
                       <<[session_id |-> session_id[w], chunk_index |-> 0,
                          start_time |-> 0,
                          end_time |-> Round2(len, settings.sample_rate)]>>
                /\ chunk_index[w] = 1
                /\ last_chunk_end[w] = len

\* stop() has returned after three blocks, a second and a half, were captured
C16_Witness ==
    \E w \in Workers :
        /\ Stopped(w)
        /\ SumSeq(buffer[w]) = settings.sample_rate + 1
        /\ SumSeq(buffer[w]) < samples_per_chunk
        /\ chunk_index[w] = 1
        /\ Len(chunks) = 1

\* C17: at 16000 samples per second with chunks of 32000 samples, when
\* 70000 samples were fed and stop() has returned, exactly two chunks were
\* produced: index 0 over samples (0, 32000) from 0 s to 2 s and index 1 over
\* (32000, 64000) from 2 s to 4 s; the last 6000 samples gave no third chunk.
\* (One unit is 2000 samples; times are in hundredths of a second.)
C17_ScenarioTwoChunks ==
    \A w \in Workers :
        Stopped(w) /\ SumSeq(buffer[w]) = ScenarioBlocks =>
            /\ SelectSeq(wav_writes, LAMBDA x : x.worker = w) =
                   <<[worker |-> w, chunk_index |-> 0, samples |-> <<0, 16>>],
                     [worker |-> w, chunk_index |-> 1, samples |-> <<16, 32>>]>>
            /\ RowsOf(session_id[w]) =
                   <<[session_id |-> session_id[w], chunk_index |-> 0,
                      start_time |-> 0, end_time |-> 200],
                     [session_id |-> session_id[w], chunk_index |-> 1,
                      start_time |-> 200, end_time |-> 400]>>

\* C18: every chunk the polling loop produces has exactly samplesPerChunk
\* samples: the range it hands to the processor for chunk index k is
\* (k*samplesPerChunk, (k+1)*samplesPerChunk), and the row it inserts has index
\* k and the start and end times of that range.
C18_LoopChunksAreFull ==
    [][\A w \in Workers :
           /\ tpc[w] = "for" /\ tpc'[w] = "transcribe" =>
                  LET e == wav_writes'[Len(wav_writes')]
                  IN  /\ e.worker = w
                      /\ e.samples = <<e.chunk_index * samples_per_chunk,
                                       (e.chunk_index + 1) * samples_per_chunk>>
           /\ tpc[w] = "insert" /\ tpc'[w] = "fire" =>
                  LET row == chunks'[Len(chunks')]
                      k == row.chunk_index
                  IN  /\ loc[w].samples = <<k * samples_per_chunk,
                                            (k + 1) * samples_per_chunk>>
                      /\ row.start_time =
                             Round2(k * samples_per_chunk, settings.sample_rate)
                      /\ row.end_time =
                             Round2((k + 1) * samples_per_chunk, settings.sample_rate)]_vars

\* C19: whenever the flush pass hands a chunk to the processor, the chunk
\* holds at least sampleRate samples and fewer than samplesPerChunk.
C19_FlushChunkIsShort ==
    InProcessor(MainThread) =>
        LET len == loc[MainThread].samples[2] - loc[MainThread].samples[1]
        IN  settings.sample_rate <= len /\ len < samples_per_chunk

\* C20: a subscriber receives nothing before it attaches, and attaching
\* sends it, first, one recording_status message whose status is `recording`
\* exactly when the session's registry entry holds a worker that is running
\* at that moment, `idle` otherwise; every chunk message comes after it.
C20_StatusFirstOnAttach ==
    /\ [](\A c \in Clients :
              /\ sock[c] \in {"none", "accepting"} => recv[c] = <<>>
              /\ recv[c] # <<>> => recv[c][1].type = "recording_status")
    /\ [][\A c \in Clients :
              sock[c] = "accepting" /\ sock'[c] = "open" =>
                  LET e == active[csess[c]]
                      recording == e.present /\ e.worker # 0 /\ running[e.worker]
                  IN  /\ Len(recv'[c]) = 1
                      /\ recv'[c][1].type = "recording_status"
                      /\ recv'[c][1].status = IF recording THEN "recording" ELSE "idle"]_vars

\* a subscriber that attached during the recording got the status and then
\* a chunk
C20_Witness ==
    \E c \in Clients :
        /\ Len(recv[c]) >= 2
        /\ recv[c][1].type = "recording_status"
        /\ recv[c][1].status = "recording"
        /\ recv[c][2].type = "chunk_transcribed"

\* C21: when a subscriber detaches it is removed from its session's
\* subscriber list and the others stay, in their order; the entry is deleted
\* when it then has no subscriber and no worker, and is kept, with its worker,
\* otherwise; the entries of other sessions are not touched.
C21_DetachRemovesOnlyItself ==
    [][\A c \in Clients :
           sock[c] = "closed" /\ sock'[c] = "done" =>
               LET s == csess[c]
                   e == active[s]
                   left == SelectSeq(e.websockets, LAMBDA x : x # c)
               IN  /\ \A s2 \in SessionIds \ {s} : active'[s2] = active[s2]
                   /\ e.present =>
                          IF left = <<>> /\ e.worker = 0
                          THEN ~active'[s].present
                          ELSE /\ active'[s].present
                               /\ active'[s].worker = e.worker
                               /\ active'[s].websockets = left]_vars

\* a subscriber has detached and the other one is still registered
C21_Witness ==
    \E c, c2 \in Clients :
        /\ c # c2
        /\ sock[c] = "done"
        /\ sock[c2] = "open"
        /\ csess[c] = csess[c2]
        /\ active[csess[c]].present
        /\ active[csess[c]].websockets = <<c2>>

\* the last subscriber of a session without a worker has detached and the
\* entry is gone
C21_WitnessDeleted ==
    \E c \in Clients :
        /\ sock[c] = "done"
        /\ ~active[csess[c]].present

\* C22: a subscriber that attached to the session before its recording
\* started (its first message is the status "idle") and is still connected
\* is in the session's subscriber list once the start request has succeeded,
\* has then received the status "recording", and has received the message of
\* every chunk whose notification task has ended.
C22_EarlySubscribersServed ==
    \A r \in StartReqs, c \in Clients :
        LET s == sreq[r].session
            early == /\ sreq[r].answer = 200
                     /\ sock[c] = "open"
                     /\ csess[c] = s
                     /\ recv[c] # <<>>
                     /\ recv[c][1] = StatusMsg("idle")
            listed == \E i \in 1 .. Len(active[s].websockets) :
                          active[s].websockets[i] = c
            told == \E i \in 1 .. Len(recv[c]) : recv[c][i] = StatusMsg("recording")
            pending(k) ==
                \/ \E i \in 1 .. Len(queue) :
                       queue[i].session_id = s /\ queue[i].chunk_index = k
                \/ \E i \in 1 .. Len(tasks) :
                       tasks[i].meta.session_id = s /\ tasks[i].meta.chunk_index = k
            got(k) == \E i \in 1 .. Len(recv[c]) :
                          /\ recv[c][i].type = "chunk_transcribed"
                          /\ recv[c][i].session_id = s
                          /\ recv[c][i].chunk_index = k
        IN  early =>
                /\ active[s].worker = r => listed /\ told
                /\ told => /\ listed
                           /\ \A i \in 1 .. Len(heard[r][1]) :
                                  ~pending(heard[r][1][i]) => got(heard[r][1][i])

C22_Witness ==
    \E r \in StartReqs, c \in Clients :
        /\ sreq[r].answer = 200
        /\ active[sreq[r].session].worker = r
        /\ sock[c] = "open"
        /\ csess[c] = sreq[r].session
        /\ Len(recv[c]) >= 3
        /\ recv[c][1] = StatusMsg("idle")
        /\ \E i \in 1 .. Len(recv[c]) : recv[c][i] = StatusMsg("recording")
        /\ \E i \in 1 .. Len(recv[c]) : recv[c][i].type = "chunk_transcribed"
        /\ queue = <<>> /\ tasks = <<>>

\* the tasks that have entered _trigger_live_notes
InNotes == {i \in 1 .. Len(tasks) : tasks[i].pc \in {"notes", "generate", "notes_broadcast"}}

\* the notification of chunk k of session s has not been handled to its end
NotificationPending(s, k) ==
    \/ \E i \in 1 .. Len(queue) :
           queue[i].session_id = s /\ queue[i].chunk_index = k
    \/ \E i \in 1 .. Len(tasks) :
           tasks[i].meta.session_id = s /\ tasks[i].meta.chunk_index = k

\* C23: with interval N the notes are asked for only for the chunks whose
\* index plus one is a multiple of N, for each such chunk notified to the
\* bridge, once for each, and only when the chunk's message has been sent to
\* every subscriber of the broadcast that is still connected.
C23_NotesEveryInterval ==
    LET N == settings.live_notes_interval_chunks
        Calls == 1 .. Len(notes_calls)
    IN  /\ \A i \in InNotes : (tasks[i].meta.chunk_index + 1) % N = 0
        /\ \A n \in Calls : (notes_calls[n].chunk_index + 1) % N = 0
        /\ \A n, m \in Calls :
               /\ notes_calls[n].session_id = notes_calls[m].session_id
               /\ notes_calls[n].chunk_index = notes_calls[m].chunk_index
               => n = m
        /\ \A i \in InNotes :
               LET called == {n \in Calls :
                                 /\ notes_calls[n].session_id = tasks[i].meta.session_id
                                 /\ notes_calls[n].chunk_index = tasks[i].meta.chunk_index}
               IN  called = IF tasks[i].pc = "notes" THEN {} ELSE {tasks[i].call}
        /\ \A w \in Workers : \A j \in 1 .. Len(heard[w]) :
               callbacks[w][j] = "bridge" =>
                   \A x \in 1 .. Len(heard[w][j]) :
                       LET k == heard[w][j][x]
                       IN  (k + 1) % N = 0 /\ ~NotificationPending(session_id[w], k) =>
                               \E n \in Calls :
                                   /\ notes_calls[n].session_id = session_id[w]
                                   /\ notes_calls[n].chunk_index = k
        /\ \A i \in InNotes : \A j \in 1 .. Len(tasks[i].to) :
               sock[tasks[i].to[j]] = "open" =>
                   \E x \in 1 .. Len(recv[tasks[i].to[j]]) :
                       recv[tasks[i].to[j]][x] = ChunkMsg(tasks[i].meta)

C23_Witness ==
    \E i \in InNotes :
        /\ tasks[i].pc = "generate"
        /\ tasks[i].to # <<>>
        /\ sock[tasks[i].to[1]] = "open"
        /\ \E w \in Workers : chunk_index[w] > tasks[i].meta.chunk_index + 1

\* C24: when a call of generate_live_notes raises, the step leaves the
\* workers, their buffers and chunk bookkeeping, the transcript log, the
\* registry with its subscriber lists and every subscriber's messages as they
\* were, and the task ends; the notes of a call that raised are never sent
\* or written, and no second call is made for its chunk.
C24_NotesFailureSwallowed ==
    [][\A n \in 1 .. Len(notes_calls) :
           /\ notes_calls[n].outcome = "pending" /\ notes_calls'[n].outcome = "raised" =>
                  /\ UNCHANGED <<dbVars, bufVars, chunkVars, lifeVars, objVars,
                                 threadVars, logVars, active, recv, sock, queue,
                                 live_draft>>
                  /\ Len(notes_calls') = Len(notes_calls)
                  /\ Len(tasks') = Len(tasks) - 1
                  /\ \A i \in 1 .. Len(tasks') :
                         tasks'[i].meta.chunk_index # notes_calls[n].chunk_index
           /\ notes_calls'[n].outcome = "raised" =>
                  /\ \A c \in Clients : \A x \in 1 .. Len(recv'[c]) :
                         recv'[c][x] # NotesMsg(n)
                  /\ \A s \in SessionIds : \A x \in 1 .. Len(live_draft'[s]) :
                         live_draft'[s][x] # n
                  /\ \A m \in 1 .. Len(notes_calls') :
                         /\ notes_calls'[m].session_id = notes_calls'[n].session_id
                         /\ notes_calls'[m].chunk_index = notes_calls'[n].chunk_index
                         => m = n]_vars

\* a call raised, and a later chunk was processed and sent to a subscriber
C24_Witness ==
    \E n \in 1 .. Len(notes_calls) :
        /\ notes_calls[n].outcome = "raised"
        /\ notes_calls[n].chunks = notes_calls[n].chunk_index + 1
        /\ \E c \in Clients : \E x \in 1 .. Len(recv[c]) :
               /\ recv[c][x].type = "chunk_transcribed"
               /\ recv[c][x].chunk_index > notes_calls[n].chunk_index

\* what the program holds for session s: its registry entry, its rows of the
\* transcript log, and the state of the workers built for it
NoWorkerState == [buffer |-> <<>>, total_samples |-> 0, last_chunk_end |-> 0,
                  chunk_index |-> 0, running |-> FALSE, stream |-> "none"]

SessionState(s) ==
    [entry |-> active[s],
     log |-> SelectSeq(chunks, LAMBDA row : row.session_id = s),
     workers |-> [w \in Workers |->
                     IF session_id[w] = s
                     THEN [buffer |-> buffer[w], total_samples |-> total_samples[w],
                           last_chunk_end |-> last_chunk_end[w],
                           chunk_index |-> chunk_index[w], running |-> running[w],
                           stream |-> stream[w]]
                     ELSE NoWorkerState]]

\* C25: no step changes what the program holds for two sessions: an append,
\* poll, chunk, start, stop, attach or detach of one session leaves the
\* entry, the workers with their buffers and chunk bookkeeping, the
\* subscriber list and the transcript rows of every other session as they were.
C25_SessionsIndependent ==
    [][\A s1, s2 \in SessionIds :
           s1 # s2 /\ SessionState(s1)' # SessionState(s1) =>
               SessionState(s2)' = SessionState(s2)]_vars

\* two sessions record at the same time, one has a subscriber, and the
\* other one's recording has been stopped with a chunk in the log
C25_Witness ==
    \E s1, s2 \in SessionIds :
        /\ s1 # s2
        /\ active[s1].present /\ active[s1].websockets # <<>>
        /\ active[s1].worker # 0
        /\ buffer[active[s1].worker] # <<>>
        /\ \E i \in 1 .. Len(chunks) : chunks[i].session_id = s2
        /\ \E q \in StopReqs : qpc[q] = "done" /\ qreq[q].answer = 200

\* the transcript log holds a row of session s for every index 0 .. k
LogHolds(s, k) ==
    \A j \in 0 .. k :
        \E x \in 1 .. Len(chunks) :
            chunks[x].session_id = s /\ chunks[x].chunk_index = j

C28_OneStopPerWorker ==
    /\ [][\A r \in StartReqs :
              LET s == sreq'[r].session
              IN  spc[r] = "idle" /\ spc'[r] # "idle"
                  /\ active[s].present /\ active[s].worker # 0 =>
                      /\ spc'[r] = "done" /\ sreq'[r].answer = 409
                      /\ UNCHANGED <<active, dbVars, bufVars, chunkVars, lifeVars,
                                     objVars, threadVars>>]_vars
    /\ [][\A q \in StopReqs :
              LET s == qreq'[q].session
              IN  qpc[q] = "idle" /\ qpc'[q] # "idle"
                  /\ ~(active[s].present /\ active[s].worker # 0) =>
                      /\ qpc'[q] = "done" /\ qreq'[q].answer = 400
                      /\ UNCHANGED <<active, dbVars, bufVars, chunkVars, lifeVars,
                                     objVars, threadVars>>]_vars
    /\ [](\A q1, q2 \in StopReqs :
              q1 # q2 /\ qreq[q1].worker # 0 => qreq[q2].worker # qreq[q1].worker)

\* C29: lastChunkEnd and chunkIndex of a worker change only in the step
\* that follows the processor's return, to the end of the processed range
\* and by one; a failure of the transcription or of the INSERT, in the
\* polling loop or in the flush pass, leaves both as they were; and
\* chunkIndex counts the chunks whose processing has completed, the one
\* whose advance is the thread's next step excepted.
C29_AdvanceOnlyAfterSuccess ==
    /\ [][\A w \in Workers :
              last_chunk_end'[w] # last_chunk_end[w] \/ chunk_index'[w] # chunk_index[w] =>
                  \E t \in Threads :
                      /\ tpc[t] = "advance" /\ tpc'[t] # "advance"
                      /\ loc[t].w = w
                      /\ last_chunk_end'[w] = loc[t].samples[2]
                      /\ chunk_index'[w] = chunk_index[w] + 1]_vars
    /\ [][\A t \in Threads :
              /\ tpc[t] \in {"transcribe", "insert"}
              /\ tpc'[t] \notin {"transcribe", "insert", "fire"}
              => UNCHANGED <<last_chunk_end, chunk_index>>]_vars
    /\ [](\A w \in Workers :
              session_id[w] # 0 =>
                  chunk_index[w] + Cardinality({t \in Threads :
                                                  tpc[t] = "advance" /\ loc[t].w = w})
                      = Len(heard[w][1]))

\* the polling loop ended on a failure of its second chunk, and the flush
\* pass of a stop request failed as well: one chunk is counted
C29_Witness ==
    \E w \in Workers, q \in StopReqs :
        /\ tpc[w] = "dead"
        /\ qpc[q] = "done" /\ qreq[q].answer = 500 /\ qreq[q].worker = w
        /\ Len(SelectSeq(wav_writes, LAMBDA x : x.worker = w)) = 3
        /\ chunk_index[w] = 1
        /\ last_chunk_end[w] = samples_per_chunk

\* C30: stop() clears the running flag, then closes the audio source, then
\* waits until the polling loop has exited, then flushes; the flush pass is
\* never in progress beside a polling loop that has not exited; and once
\* stop() has returned for a worker no thread is inside the processor for
\* it and its lastChunkEnd and chunkIndex change no more.
C30_StopInOrder ==
    /\ [][LET w == loc'[MainThread].w
          IN  /\ tpc[MainThread] = "idle" /\ tpc'[MainThread] # "idle" =>
                     tpc'[MainThread] = "stop_stream" /\ ~running'[w]
              /\ tpc[MainThread] = "stop_stream" /\ tpc'[MainThread] # "stop_stream" =>
                     tpc'[MainThread] = "join" /\ ~running[w] /\ stream'[w] = "none"
              /\ tpc[MainThread] = "join" /\ tpc'[MainThread] # "join" =>
                     /\ tpc'[MainThread] = "flush_lock"
                     /\ stream[w] = "none"
                     /\ LoopThreadDone(w)]_vars
    /\ [](tpc[MainThread] \in {"flush_lock", "flush_snapshot", "transcribe",
                                "insert", "fire", "advance", "stop_return"} =>
              LoopThreadDone(loc[MainThread].w))
    /\ [][\A w \in Workers :
              (\E q \in StopReqs :
                   /\ qreq[q].worker = w
                   /\ qpc[q] \in {"select", "update", "broadcast", "done"}
                   /\ qreq[q].answer # 500) =>
                  /\ \A t \in Threads : ~(InProcessor(t) /\ loc[t].w = w)
                  /\ last_chunk_end'[w] = last_chunk_end[w]
                  /\ chunk_index'[w] = chunk_index[w]]_vars

\* C31: once a subscriber has received the status `stopped` it receives no
\* chunk_transcribed message afterwards: in what a subscriber received, no
\* chunk message stands after a `stopped` message.
C31_NoChunkAfterStopped ==
    \A c \in Clients :
        \A i, j \in 1 .. Len(recv[c]) :
            recv[c][i] = StatusMsg("stopped") /\ i < j =>
                recv[c][j].type # "chunk_transcribed"

\* C32: nothing holds a trigger of the live notes back while a call of the
\* session is outstanding: a task whose notes are due can make its call
\* whenever the loop is free, and every call that returns appends its
\* notes to the session's draft, so that two calls outstanding at the same
\* time both write it.
C32_NoInFlightGuard ==
    /\ \A i \in 1 .. Len(tasks) :
           tasks[i].pc = "notes" /\ LoopFree => ENABLED trigger_live_notes_select(i)
    /\ \A n \in 1 .. Len(notes_calls) :
           notes_calls[n].outcome = "returned" =>
               \E x \in 1 .. Len(live_draft[notes_calls[n].session_id]) :
                   live_draft[notes_calls[n].session_id][x] = n

\* two calls of one session were outstanding at the same time (each read
\* the empty draft, so neither had written when the other was made) and
\* both have written the draft
C32_Witness ==
    \E n, m \in 1 .. Len(notes_calls) :
        /\ n # m
        /\ notes_calls[n].session_id = notes_calls[m].session_id
        /\ notes_calls[n].existing_notes = 0
        /\ notes_calls[m].existing_notes = 0
        /\ live_draft[notes_calls[n].session_id] = <<n, m>>

\* chunk k of worker w has been processed: its row is in the transcript log
\* and every listener of the worker has been called with it
ChunkDone(w, k) ==
    /\ \E x \in 1 .. Len(chunks) :
           chunks[x].session_id = session_id[w] /\ chunks[x].chunk_index = k
    /\ \A i \in 1 .. Len(callbacks[w]) :
           \E x \in 1 .. Len(heard[w][i]) : heard[w][i][x] = k

\* C33: under fair scheduling and with no processing failure, whenever the
\* captured total reaches last_chunk_end + samples_per_chunk while the
\* worker is running, the chunk with the next index is eventually
\* processed, persisted and notified to the listeners.
C33_DueChunkProcessed ==
    \A w \in Workers, k \in 0 .. FairBlocks :
        (/\ running[w]
         /\ chunk_index[w] = k
         /\ total_samples[w] >= last_chunk_end[w] + samples_per_chunk)
            ~> ChunkDone(w, k)

\* a chunk was due while the worker was running and has been processed
C33_Witness ==
    \E w \in Workers :
        /\ total_samples[w] >= 2 * samples_per_chunk
        /\ ChunkDone(w, 0)
        /\ ChunkDone(w, 1)

\* stop() is running for worker w
Stopping(w) ==
    /\ tpc[MainThread] \notin {"idle", "stop_return"}
    /\ loc[MainThread].w = w

\* no stop() is running: the last one has returned to the request
StopReturned == tpc[MainThread] \in {"idle", "stop_return"}

\* C34: once stop() has cleared the running flag, the polling loop that
\* tests the flag starts no new poll, and it eventually exits; and stop()
\* eventually returns, wherever the worker's thread was when it was called,
\* every transcription terminating.
C34_StopTerminates ==
    /\ [][\A w \in Workers :
             tpc[w] = "test" /\ ~running[w] => tpc'[w] # "lock_total"]_vars
    /\ \A w \in Workers : Stopping(w) ~> LoopThreadDone(w)
    /\ \A w \in Workers : Stopping(w) ~> StopReturned

\* stop() waits for the worker's thread, which is calling the listeners
C34_Witness ==
    \E w \in Workers :
        /\ Stopping(w)
        /\ tpc[MainThread] = "join"
        /\ tpc[w] = "fire"

\* the poll of worker w in progress finds less than one chunk of samples
\* beyond last_chunk_end
IdlePoll(w) ==
    /\ tpc[w] = "read_total"
    /\ total_samples[w] < last_chunk_end[w] + samples_per_chunk

\* what a poll can act on: the samples, the chunk counters, the transcript
\* log, the audio files, the listeners' calls and the poll's own locals
PollData(w) ==
    <<buffer[w], total_samples[w], last_chunk_end[w], chunk_index[w], chunks,
      wav_writes, heard, queue, loc[w]>>

\* C35: a poll that finds fewer than samples_per_chunk samples beyond
\* last_chunk_end returns at once: it goes to the wait without a snapshot,
\* enters no chunk processing, calls no listener and leaves the buffer,
\* the total, last_chunk_end, chunk_index and the transcript log as they
\* are; and so do the wait, the test of the flag and the taking of the lock
\* that lead to the next poll.
C35_IdlePollNoOp ==
    [][\A w \in Workers :
          /\ IdlePoll(w) /\ tpc'[w] # tpc[w] =>
                 tpc'[w] = "wait" /\ PollData(w)' = PollData(w)
          /\ tpc[w] \in {"wait", "test", "lock_total"} /\ tpc'[w] # tpc[w] =>
                 /\ tpc'[w] \in {"test", "lock_total", "read_total", "exited"}
                 /\ <<buffer[w], total_samples[w], last_chunk_end[w], chunk_index[w],
                      chunks, wav_writes, heard, queue>>' =
                    <<buffer[w], total_samples[w], last_chunk_end[w], chunk_index[w],
                      chunks, wav_writes, heard, queue>>]_vars

\* a poll has found samples, but less than a chunk, and has returned
C35_Witness ==
    \E w \in Workers :
        /\ tpc[w] = "wait"
        /\ chunk_index[w] = 0
        /\ wav_writes = <<>>
        /\ total_samples[w] > 0
        /\ total_samples[w] < samples_per_chunk

\* worker w is Running: start() has opened the stream and started the
\* thread, and stop() has not been called
WorkerRunning(w) ==
    /\ stream[w] = "open"
    /\ thread[w] = "set"
    /\ ~Stopping(w)

\* C36: is_running is true exactly while the worker is Running: it is
\* false before start(), false after a start() whose audio source failed
\* to open, and false from the moment stop() is called.
C36_IsRunningExactlyRunning ==
    \A w \in Workers : running[w] <=> WorkerRunning(w)

\* no request handler is in progress: every request has been answered or
\* not made, every connection is attached or gone, and no stop() runs
NoHandlerInProgress ==
    /\ LoopFree
    /\ \A r \in StartReqs : spc[r] \in {"idle", "done"}
    /\ \A q \in StopReqs : qpc[q] \in {"idle", "done"}
    /\ \A c \in Clients : sock[c] \in {"none", "open", "done"}

\* C37: whenever no request handler is in progress, every entry of the
\* registry has a worker or at least one subscriber.
C37_NoEmptyEntry ==
    NoHandlerInProgress =>
        \A s \in SessionIds :
            active[s].present => active[s].worker # 0 \/ active[s].websockets # <<>>

\* the subscribers the broadcast of task i has sent to, or is sending to
Served(i) ==
    {tasks[i].to[x] : x \in 1 .. Len(tasks[i].to) - Len(tasks[i].rem)}

\* C38: a broadcast reaches every subscriber of the list it copied when it
\* started: the sends follow the copy whatever attaches or detaches in the
\* meantime, a send that fails is passed over, and every subscriber the
\* broadcast has come to and whose connection is open has the message.
C38_BroadcastReachesAll ==
    \A i \in 1 .. Len(tasks) :
        tasks[i].pc = "broadcast" =>
            /\ IsSuffix(tasks[i].rem, tasks[i].to)
            /\ tasks[i].to # <<>>
            /\ \A c \in Served(i) :
                   sock[c] = "open" =>
                       \E x \in 1 .. Len(recv[c]) : recv[c][x] = ChunkMsg(tasks[i].meta)

\* a broadcast to two subscribers has come to its end: the send to the
\* first failed, the second has the message, and the first is no longer in
\* the registry's list
C38_Witness ==
    \E i \in 1 .. Len(tasks) :
        /\ tasks[i].pc = "broadcast"
        /\ Len(tasks[i].to) = 2
        /\ tasks[i].rem = <<>>
        /\ \A x \in 1 .. Len(recv[tasks[i].to[1]]) :
               recv[tasks[i].to[1]][x] # ChunkMsg(tasks[i].meta)
        /\ \E x \in 1 .. Len(recv[tasks[i].to[2]]) :
               recv[tasks[i].to[2]][x] = ChunkMsg(tasks[i].meta)
        /\ Recipients(tasks[i].meta.session_id) # tasks[i].to

====
